---- MODULE Spec2Model ----
(***************************************************************************)
(* A model of the Qkron (taskmaster) core: the command validator, the      *)
(* execution engine (TaskExecutor), the dependency gate                    *)
(* (TaskService.check_dependencies) and the three dispatch paths           *)
(* (scheduled trigger, manual run, webhook run).                           *)
(*                                                                         *)
(* Concurrency is asyncio's: a coroutine runs without interruption from    *)
(* one await to the next, so each action below is the code between two     *)
(* awaits of one coroutine.  The engine is one object shared by the        *)
(* server's event loop and by the loops the scheduler creates in its pool  *)
(* threads; the steps of coroutines of different loops interleave in the   *)
(* same way.                                                               *)
(***************************************************************************)
EXTENDS Integers, Sequences, FiniteSets, TLC

(***************************************************************************)
(* Bounds of the model.                                                    *)
(***************************************************************************)
\* the engine is constructed with max_workers in 1..MaxWorkers
MaxWorkers == 1
\* callers pass max_retries in 0..MaxRetries
MaxRetries == 2
\* clock ticks per second (datetime has sub-second resolution, duration is
\* truncated to whole seconds)
Res == 2
\* a wait is followed for at most MaxTime ticks of the clock
MaxTime == 2

(***************************************************************************)
(* Program constants.                                                      *)
(***************************************************************************)
\* executor.py:59  len(command) > 10000
MaxCommandLength == 10000
\* executor.py:89  command.count("\n") > 2
MaxNewlines == 2
\* the return code asyncio reports for a process ended by SIGKILL
SIGKILLCode == -9
\* executor.py:274  max_length = 100 * 1024
MaxLength == 102400

None == "None"

(***************************************************************************)
(* Command strings: sequences of one-character strings.  "NUL" stands for  *)
(* the character \x00 and "BQ" for the backquote.                          *)
(***************************************************************************)
Whitespace == {" ", "\t", "\n"}

IsSpace(c) == c \in Whitespace

\* re.IGNORECASE: characters are compared after case folding
Lower(c) ==
    CASE c = "R" -> "r"
      [] c = "M" -> "m"
      [] c = "C" -> "c"
      [] c = "U" -> "u"
      [] c = "L" -> "l"
      [] c = "W" -> "w"
      [] c = "G" -> "g"
      [] c = "E" -> "e"
      [] c = "T" -> "t"
      [] c = "D" -> "d"
      [] c = "V" -> "v"
      [] c = "S" -> "s"
      [] c = "H" -> "h"
      [] OTHER -> c

\* pattern elements: a literal character, \s* and \s
Lit(c) == [t |-> "lit", c |-> c]
WsStar == [t |-> "ws*", c |-> ""]
Ws == [t |-> "ws", c |-> ""]

DANGEROUS_PATTERNS ==
    << <<Lit(";"), WsStar, Lit("r"), Lit("m"), Ws>>,
       <<Lit("|"), WsStar, Lit("r"), Lit("m"), Ws>>,
       <<Lit("&"), Lit("&"), WsStar, Lit("r"), Lit("m"), Ws>>,
       <<Lit(";"), WsStar, Lit("c"), Lit("u"), Lit("r"), Lit("l"), Ws>>,
       <<Lit("|"), WsStar, Lit("c"), Lit("u"), Lit("r"), Lit("l"), Ws>>,
       <<Lit(";"), WsStar, Lit("w"), Lit("g"), Lit("e"), Lit("t"), Ws>>,
       <<Lit("|"), WsStar, Lit("w"), Lit("g"), Lit("e"), Lit("t"), Ws>>,
       <<Lit("$"), Lit("(")>>,
       <<Lit("BQ")>>,
       <<Lit(">"), WsStar, Lit("/"), Lit("d"), Lit("e"), Lit("v"), Lit("/")>>,
       <<Lit(">"), WsStar, Lit("|")>> >>

\* the pattern matches s starting at position i
RECURSIVE MatchAt(_, _, _)
MatchAt(pat, s, i) ==
    IF pat = <<>> THEN TRUE
    ELSE LET e == Head(pat) IN
         CASE e.t = "lit" ->
                  /\ i <= Len(s)
                  /\ Lower(s[i]) = e.c
                  /\ MatchAt(Tail(pat), s, i + 1)
           [] e.t = "ws" ->
                  /\ i <= Len(s)
                  /\ IsSpace(s[i])
                  /\ MatchAt(Tail(pat), s, i + 1)
           [] OTHER ->
                  \/ MatchAt(Tail(pat), s, i)
                  \/ /\ i <= Len(s)
                     /\ IsSpace(s[i])
                     /\ MatchAt(pat, s, i + 1)

\* re.search(pattern, command, re.IGNORECASE)
ReSearch(pat, s) == \E i \in 1..(Len(s) + 1) : MatchAt(pat, s, i)

\* command.count(c)
Count(s, c) == Cardinality({i \in 1..Len(s) : s[i] = c})

\* str.strip()
RECURSIVE LStrip(_)
LStrip(s) == IF s # <<>> /\ IsSpace(Head(s)) THEN LStrip(Tail(s)) ELSE s

RECURSIVE RStrip(_)
RStrip(s) ==
    IF s # <<>> /\ IsSpace(s[Len(s)]) THEN RStrip(SubSeq(s, 1, Len(s) - 1)) ELSE s

Strip(s) == RStrip(LStrip(s))

\* shlex.split(command) for commands without backslashes, read up to its
\* first word: whitespace ends a word, a quote opens text that runs to the
\* same quote and belongs to the word, and text that ends inside a quote
\* raises ValueError("No closing quotation"). quote is the open quote or
\* None, inword says that a word is being read, first is the first word as
\* far as it was read, done says that the first word is complete.
RECURSIVE ShlexScan(_, _, _, _, _)
ShlexScan(s, quote, inword, first, done) ==
    IF s = <<>>
    THEN IF quote # None THEN [raised |-> TRUE, parts |-> <<>>]
         ELSE [raised |-> FALSE,
               parts |-> IF done \/ inword THEN <<first>> ELSE <<>>]
    ELSE LET c == Head(s) IN
         IF quote # None
         THEN IF c = quote THEN ShlexScan(Tail(s), None, TRUE, first, done)
              ELSE ShlexScan(Tail(s), quote, TRUE,
                             IF done THEN first ELSE Append(first, c), done)
         ELSE IF IsSpace(c)
         THEN ShlexScan(Tail(s), None, FALSE, first, done \/ inword)
         ELSE IF c \in {"'", "\""}
         THEN ShlexScan(Tail(s), c, TRUE, first, done)
         ELSE ShlexScan(Tail(s), None, TRUE,
                        IF done THEN first ELSE Append(first, c), done)

\* shlex.split(command): raised, or parts, which holds parts[0] if there
\* is one
ShlexSplit(command) == ShlexScan(command, None, FALSE, <<>>, FALSE)

\* the allowlist branch of validate_command (executor.py 63-74): FALSE when
\* it returns "not in allowed list"; a ValueError of shlex.split is passed
\* over, and so is a command without parts
InAllowedList(command, whitelist) ==
    LET sh == ShlexSplit(command) IN
    \/ whitelist = {}
    \/ sh.raised
    \/ sh.parts = <<>>
    \/ sh.parts[1] \in whitelist

\* the first dangerous pattern found in the command, 0 when there is none
FirstPattern(command) ==
    LET hits == {k \in 1..Len(DANGEROUS_PATTERNS) :
                     ReSearch(DANGEROUS_PATTERNS[k], command)}
    IN IF hits = {} THEN 0 ELSE CHOOSE k \in hits : \A m \in hits : k <= m

Msg(kind, arg) == [kind |-> kind, arg |-> arg]

\* validate_command(command, allowed_commands) -> (is_valid, error_message)
validate_command(command, whitelist) ==
    IF command = <<>> \/ Strip(command) = <<>>
    THEN [ok |-> FALSE, msg |-> Msg("Command cannot be empty", 0)]
    ELSE IF Len(command) > MaxCommandLength
    THEN [ok |-> FALSE, msg |-> Msg("Command too long", 0)]
    ELSE IF ~InAllowedList(command, whitelist)
    THEN [ok |-> FALSE, msg |-> Msg("Command not in allowed list", 0)]
    ELSE IF FirstPattern(command) # 0
    THEN [ok |-> FALSE,
          msg |-> Msg("Command contains disallowed pattern", FirstPattern(command))]
    ELSE IF Count(command, "NUL") > 0
    THEN [ok |-> FALSE, msg |-> Msg("Command contains null bytes", 0)]
    ELSE IF Count(command, "\n") > MaxNewlines
    THEN [ok |-> FALSE, msg |-> Msg("Command contains too many newlines", 0)]
    ELSE [ok |-> TRUE, msg |-> Msg("", 0)]

\* command.replace("\x00", "")
RECURSIVE RemoveNul(_)
RemoveNul(s) ==
    IF s = <<>> THEN <<>>
    ELSE IF Head(s) = "NUL" THEN RemoveNul(Tail(s))
    ELSE <<Head(s)>> \o RemoveNul(Tail(s))

\* re.sub(r"\n{3,}", "\n\n", command): run is the number of newlines
\* immediately before s that were already copied
RECURSIVE CollapseNewlines(_, _)
CollapseNewlines(s, run) ==
    IF s = <<>> THEN <<>>
    ELSE IF Head(s) = "\n"
    THEN IF run >= 2 THEN CollapseNewlines(Tail(s), run)
         ELSE <<"\n">> \o CollapseNewlines(Tail(s), run + 1)
    ELSE <<Head(s)>> \o CollapseNewlines(Tail(s), 0)

\* sanitize_command(command)
sanitize_command(command) == Strip(CollapseNewlines(RemoveNul(command), 0))


(***************************************************************************)
(* Inputs of the engine's callers.                                         *)
(***************************************************************************)
\* execution identifiers passed by callers
Keys == {"e1"}

cmdOk == <<"l", "s">>
cmdPadded == <<" ", "l", "s", "\n">>
cmdChainedRm == <<"a", ";", " ", "R", "m", " ", "x">>
cmdEmpty == <<>>

\* commands passed by callers: valid ones and ones validate_command rejects
Commands == {cmdPadded, cmdChainedRm}

\* timeouts in seconds
Timeouts == {1}

\* exit codes of a process that ends by itself
ReturnCodes == {0, 1}

\* what communicate() read from one pipe: so many bytes, which decode to so
\* many characters (UTF-8 takes one to four bytes for a character, and
\* errors="replace" gives one character for a byte that is no UTF-8)
Capture(bytes, chars) == [bytes |-> bytes, chars |-> chars]

\* (stdout, stderr) captured from a process
Outputs == {<<Capture(2, 2), Capture(0, 0)>>}

\* the concurrent callers of the engine
Callers == {1, 2}

\* faulty variant of AttemptKey: every attempt runs under the caller's key
AttemptKey_CallersKey(execution_id, n) == <<execution_id, 0>>

\* f"{execution_id}_attempt_{attempt + 1}"; a key passed to run is <<id, 0>>
AttemptKey(execution_id, n) == <<execution_id, n>>

(***************************************************************************)
(* State.                                                                  *)
(***************************************************************************)
VARIABLES
    max_workers,     \* TaskExecutor.max_workers
    allowed_commands,\* TaskExecutor.allowed_commands
    semaphore,       \* TaskExecutor.semaphore._value
    sem_loop,        \* TaskExecutor.semaphore._loop: the event loop it is bound to
    running_tasks,   \* TaskExecutor._running_tasks: key -> process
    proc,            \* the processes spawned so far: pid -> state
    task,            \* the coroutines calling execute / execute_with_retry
    canc,            \* the coroutine calling cancel
    jobs,            \* the store's Task rows: job id -> row
    disp,            \* the dispatch each caller is part of, if any
    sched,           \* the TaskScheduler, its APScheduler and the clock
    schedules,       \* the store's Task rows: job id -> schedule descriptor
    call,            \* the last add_task with an interval: id, schedule, raised
    edit,            \* the PUT /tasks/{id} request in progress, if any
    configs,         \* the store's NotificationConfig rows
    logs,            \* the store's NotificationLog rows
    notif,           \* the call of notify_task_event in progress, if any
    executions       \* the store's TaskExecution rows

dispVars == <<jobs, disp>>

notifVars == <<configs, logs, notif>>

dbVars == <<schedules, call, edit, notifVars, executions>>

execVars == <<max_workers, allowed_commands, semaphore, sem_loop, running_tasks,
              proc, task, canc>>

NoResult == [status |-> None, return_code |-> <<>>, stdout |-> <<>>,
             stderr |-> <<>>, duration |-> 0, error |-> Msg(None, 0),
             attempt_number |-> 0]

IdleTask == [pc |-> "idle", kind |-> None, loop |-> None, execution_id |-> None,
             arg |-> <<>>, command |-> <<>>, timeout |-> 0, max_retries |-> 0,
             attempt |-> 0, cur_id |-> <<None, 0>>, shell_command |-> <<>>,
             spawned |-> 0,
             elapsed |-> 0, sleeps |-> 0, calls |-> 0,
             result |-> NoResult]

IdleCanc == [pc |-> "idle", key |-> <<None, 0>>, pid |-> <<0, 0>>, ret |-> None,
             late |-> FALSE, again |-> FALSE]

InitExec ==
    /\ max_workers \in 1..MaxWorkers
    /\ allowed_commands = {}
    /\ semaphore = max_workers
    /\ sem_loop = None
    /\ running_tasks = <<>>
    /\ proc = <<>>
    /\ task = [c \in Callers |-> IdleTask]
    /\ canc = IdleCanc

(***************************************************************************)
(* Helpers on the state.                                                   *)
(***************************************************************************)
\* faulty variant of Untrack: the entry is never deleted
Untrack_KeepsEntry(rt, key) == rt

\* self._running_tasks[key] = p
Track(rt, key, p) == [k \in DOMAIN rt \cup {key} |-> IF k = key THEN p ELSE rt[k]]

\* if key in self._running_tasks: del self._running_tasks[key]
Untrack(rt, key) == [k \in DOMAIN rt \ {key} |-> rt[k]]

\* the process of caller c's current execute call
Pid(c) == <<c, task[c].spawned>>

\* a process object is referenced by the table, by the execute call that
\* spawned it while it waits for it, and by a cancel that waits for it
Referenced(p, rt, tk, cn) ==
    \/ \E k \in DOMAIN rt : rt[k] = p
    \/ \E c \in Callers : tk[c].pc \in {"waiting", "killwait"} /\ p = <<c, tk[c].spawned>>
    \/ cn.pc = "wait" /\ cn.pid = p

\* the processes that matter: those still running and those referenced (an
\* ended process that nothing references is garbage)
Collect(pr, rt, tk, cn) ==
    [p \in {q \in DOMAIN pr : \/ pr[q].state \in {"alive", "killing"}
                              \/ Referenced(q, rt, tk, cn)} |-> pr[p]]

IsDead(p) == proc[p].state \in {"exited", "killed"}

\* process.kill(): SIGKILL is sent to a process that still runs
Kill(pr, p) ==
    IF pr[p].state = "alive" THEN [pr EXCEPT ![p].state = "killing"] ELSE pr

\* stdout.decode("utf-8", errors="replace") if stdout else None: the length
\* of the text
Decode(stream) == IF stream.bytes > 0 THEN <<stream.chars>> ELSE <<>>

\* "Truncate if too long" (executor.py 273-278): the text returned, as the
\* number of characters of the decoded text it begins with and whether
\* "\n... (truncated)" follows them
Truncate(str) ==
    IF str = <<>> THEN <<>>
    ELSE IF str[1] > MaxLength THEN <<[chars |-> MaxLength, marker |-> TRUE]>>
    ELSE <<[chars |-> str[1], marker |-> FALSE]>>

\* int((end_time - start_time).total_seconds()), for end_time - start_time
\* of so many ticks
Duration(ticks) == ticks \div Res

\* the dict returned when validation fails (executor.py 156-163, 225-232)
ValidationFailed(msg) ==
    [status |-> "failed", return_code |-> <<>>, stdout |-> <<>>, stderr |-> <<>>,
     duration |-> 0, error |-> Msg("Command validation failed", msg.arg),
     attempt_number |-> 0]

\* faulty variant of CompletedResult: the return code is not looked at
CompletedResult_IgnoresCode(rc, out, duration) ==
    [status |-> "completed", return_code |-> <<rc>>,
     stdout |-> Truncate(Decode(out[1])),
     stderr |-> Truncate(Decode(out[2])),
     duration |-> duration, error |-> [kind |-> None, arg |-> 0],
     attempt_number |-> 0]

\* the dict returned on normal completion (executor.py 280-291)
CompletedResult(rc, out, duration) ==
    [status |-> IF rc = 0 THEN "completed" ELSE "failed",
     return_code |-> <<rc>>,
     stdout |-> Truncate(Decode(out[1])),
     stderr |-> Truncate(Decode(out[2])),
     duration |-> duration,
     error |-> IF rc = 0 THEN Msg(None, 0) ELSE Msg("Exit code", rc),
     attempt_number |-> 0]

\* the dict returned on timeout (executor.py 308-315)
TimeoutResult(timeout, duration) ==
    [status |-> "timeout", return_code |-> <<>>, stdout |-> <<>>, stderr |-> <<>>,
     duration |-> duration, error |-> Msg("Task timed out after", timeout),
     attempt_number |-> 0]

\* the dict returned by the outer except (executor.py 322-329)
ExceptionResult ==
    [status |-> "failed", return_code |-> <<>>, stdout |-> <<>>, stderr |-> <<>>,
     duration |-> 0, error |-> Msg("str(e)", 0), attempt_number |-> 0]

\* the dict returned when the retry loop made no attempt (executor.py 205-212)
NoAttemptResult ==
    [status |-> "failed", return_code |-> <<>>, stdout |-> <<>>, stderr |-> <<>>,
     duration |-> 0, error |-> Msg("No execution result available", 0),
     attempt_number |-> 0]


\* faulty variant of AfterExecute: the loop sleeps after the last attempt too
AfterExecute_SleepsAfterLast(t0, res) ==
    LET t == [t0 EXCEPT !.elapsed = 0] IN
    IF t.kind = "run"
    THEN [t EXCEPT !.pc = "returned", !.result = res]
    ELSE LET last == [res EXCEPT !.attempt_number = t.attempt + 1] IN
         IF res.status = "completed"
         THEN [t EXCEPT !.pc = "returned", !.result = last]
         ELSE IF t.attempt < t.max_retries
         THEN [t EXCEPT !.pc = "sleeping", !.result = last, !.sleeps = @ + 1]
         ELSE [t EXCEPT !.pc = "returned", !.result = last]

\* faulty variant of AfterExecute: a completed attempt is retried like a
\* failed one
AfterExecute_RetriesSuccess(t0, res) ==
    LET t == [t0 EXCEPT !.elapsed = 0] IN
    IF t.kind = "run"
    THEN [t EXCEPT !.pc = "returned", !.result = res]
    ELSE LET last == [res EXCEPT !.attempt_number = t.attempt + 1] IN
         IF t.attempt < t.max_retries - 1
         THEN [t EXCEPT !.pc = "sleeping", !.result = last, !.sleeps = @ + 1]
         ELSE [t EXCEPT !.pc = "returned", !.result = last]

(***************************************************************************)
(* execute_with_retry: the part of the loop body after execute returned    *)
(* (executor.py 184-203, 205).  No await lies between the return of        *)
(* execute and the call of asyncio.sleep, so it is part of the action      *)
(* that makes execute return.                                              *)
(***************************************************************************)
\* faulty variant of AfterExecute: an attempt that was killed ends the loop
AfterExecute_KillEndsLoop(t0, res) ==
    LET t == [t0 EXCEPT !.elapsed = 0] IN
    IF t.kind = "run"
    THEN [t EXCEPT !.pc = "returned", !.result = res]
    ELSE LET last == [res EXCEPT !.attempt_number = t.attempt + 1] IN
         IF res.status = "completed" \/ res.return_code = <<SIGKILLCode>>
         THEN [t EXCEPT !.pc = "returned", !.result = last]
         ELSE IF t.attempt < t.max_retries - 1
         THEN [t EXCEPT !.pc = "sleeping", !.result = last, !.sleeps = @ + 1]
         ELSE [t EXCEPT !.pc = "returned", !.result = last]

AfterExecute(t0, res) ==
    LET t == [t0 EXCEPT !.elapsed = 0] IN
    IF t.kind = "run"
    THEN [t EXCEPT !.pc = "returned", !.result = res]
    ELSE LET last == [res EXCEPT !.attempt_number = t.attempt + 1] IN
         IF res.status = "completed"
         THEN [t EXCEPT !.pc = "returned", !.result = last]
         ELSE IF t.attempt < t.max_retries - 1
         THEN [t EXCEPT !.pc = "sleeping", !.result = last, !.sleeps = @ + 1]
         ELSE [t EXCEPT !.pc = "returned", !.result = last]

\* execute up to "async with self.semaphore" (executor.py 221-237)
EnterExecute(t, id) ==
    LET v == validate_command(t.command, allowed_commands)
        t1 == [t EXCEPT !.cur_id = id, !.calls = @ + 1]
    IN IF ~v.ok
       THEN AfterExecute(t1, ValidationFailed(v.msg))
       ELSE [t1 EXCEPT !.pc = "acquire",
                       !.shell_command = sanitize_command(t.command)]

\* faulty variant of EnterExecuteWithRetry: the wrapper does not validate,
\* so that a rejected command is rejected by each attempt
EnterExecuteWithRetry_NoValidation(t) ==
    IF t.max_retries <= 0
    THEN [t EXCEPT !.pc = "returned", !.result = NoAttemptResult]
    ELSE EnterExecute(t, AttemptKey(t.execution_id, 1))

\* faulty variant of EnterExecuteWithRetry: the loop makes one attempt at
\* least
EnterExecuteWithRetry_AtLeastOnce(t) ==
    LET v == validate_command(t.command, allowed_commands) IN
    IF ~v.ok
    THEN [t EXCEPT !.pc = "returned", !.result = ValidationFailed(v.msg)]
    ELSE EnterExecute([t EXCEPT !.command = sanitize_command(t.command)],
                      AttemptKey(t.execution_id, 1))

\* execute_with_retry up to its first call of execute (executor.py 152-182)
EnterExecuteWithRetry(t) ==
    LET v == validate_command(t.command, allowed_commands) IN
    IF ~v.ok
    THEN [t EXCEPT !.pc = "returned", !.result = ValidationFailed(v.msg)]
    ELSE IF t.max_retries <= 0
    THEN [t EXCEPT !.pc = "returned", !.command = sanitize_command(t.command),
                   !.result = NoAttemptResult]
    ELSE EnterExecute([t EXCEPT !.command = sanitize_command(t.command)],
                      AttemptKey(t.execution_id, 1))

(***************************************************************************)
(* asyncio.Semaphore, shared by every event loop that calls the engine:    *)
(* the API's handlers run on the server's loop ("main"), every scheduled   *)
(* trigger on a loop of its own in a pool thread (scheduler.py 93-104).    *)
(***************************************************************************)
\* the loop created for caller c when it runs in a pool thread
ThreadLoop(c) == <<"t1", "t2">>[c]

\* what the direct callers of the engine do: the first calls execute or
\* execute_with_retry with any command, on the server's loop or in a pool
\* thread; the second calls execute with an accepted command in a pool thread
Env == <<[commands |-> Commands, loops |-> {"main", ThreadLoop(1)}, retry |-> TRUE],
         [commands |-> {cmdPadded}, loops |-> {ThreadLoop(2)}, retry |-> FALSE]>>

\* the dispatch paths the callers take: the first is a scheduled trigger or
\* a manual run, the second a manual run or a webhook run
Origins == <<{"scheduled", "manual"}, {"manual", "webhook"}>>

\* Semaphore.locked(): no free slot, or somebody waits for one
Locked ==
    \/ semaphore = 0
    \/ \E d \in Callers : task[d].pc \in {"blocked", "granted"}

\* faulty variant of Release: a caller that goes to its retry sleep keeps
\* the slot
Release_KeptThroughSleep(tk) ==
    LET ws == {d \in Callers : tk[d].pc = "blocked"} IN
    IF \E c \in Callers : tk[c].pc = "sleeping" /\ task[c].pc # "sleeping"
    THEN /\ semaphore' = semaphore
         /\ task' = tk
    ELSE IF ws = {}
    THEN /\ semaphore' = semaphore + 1
         /\ task' = tk
    ELSE /\ semaphore' = semaphore
         /\ \E d \in ws : task' = [tk EXCEPT ![d].pc = "granted"]

\* Semaphore.release() at the exit of "async with", tk being the callers
\* after the return of execute: _value += 1, and _wake_up_next hands the
\* slot to a waiter whose future is not done (_value -= 1)
Release(tk) ==
    LET ws == {d \in Callers : tk[d].pc = "blocked"} IN
    IF ws = {}
    THEN /\ semaphore' = semaphore + 1
         /\ task' = tk
    ELSE /\ semaphore' = semaphore
         /\ \E d \in ws : task' = [tk EXCEPT ![d].pc = "granted"]

(***************************************************************************)
(* The engine's actions.                                                   *)
(***************************************************************************)
\* a caller calls execute(key, command, timeout)
CallRun(c) ==
    /\ task[c].pc = "idle"
    /\ disp[c].origin = None
    /\ \E key \in Keys, cmd \in Env[c].commands, to \in Timeouts, lp \in Env[c].loops :
          task' = [task EXCEPT ![c] =
                      EnterExecute([IdleTask EXCEPT !.kind = "run",
                                                    !.loop = lp,
                                                    !.execution_id = key,
                                                    !.arg = cmd,
                                                    !.command = cmd,
                                                    !.timeout = to],
                                   AttemptKey(key, 0))]
    /\ UNCHANGED <<max_workers, allowed_commands, sem_loop, semaphore, running_tasks, proc,
                   canc, dispVars, sched, dbVars>>

\* a caller calls execute_with_retry(key, command, timeout, max_retries, delay)
CallRunWithRetry(c) ==
    /\ task[c].pc = "idle"
    /\ disp[c].origin = None
    /\ Env[c].retry
    /\ \E key \in Keys, cmd \in Env[c].commands, to \in Timeouts, n \in 0..MaxRetries,
          lp \in Env[c].loops :
          task' = [task EXCEPT ![c] =
                      EnterExecuteWithRetry([IdleTask EXCEPT !.kind = "retry",
                                                             !.loop = lp,
                                                             !.execution_id = key,
                                                             !.arg = cmd,
                                                             !.command = cmd,
                                                             !.timeout = to,
                                                             !.max_retries = n])]
    /\ UNCHANGED <<max_workers, allowed_commands, sem_loop, semaphore, running_tasks, proc,
                   canc, dispVars, sched, dbVars>>

\* async with self.semaphore (executor.py 237), Semaphore.acquire():
\* "if not self.locked(): self._value -= 1; return True"
AcquireSlot(c) ==
    /\ task[c].pc = "acquire"
    /\ ~Locked
    /\ semaphore' = semaphore - 1
    /\ task' = [task EXCEPT ![c].pc = "spawn"]
    /\ UNCHANGED <<max_workers, allowed_commands, sem_loop, running_tasks, proc, canc,
                   dispVars, sched, dbVars>>

\* Semaphore.acquire() when locked(): "fut = self._get_loop().create_future()"
\* binds the semaphore to the caller's loop if it is bound to none, and the
\* caller waits for the future
AcquireBlocks(c) ==
    /\ task[c].pc = "acquire"
    /\ Locked
    /\ sem_loop \in {None, task[c].loop}
    /\ sem_loop' = task[c].loop
    /\ task' = [task EXCEPT ![c].pc = "blocked"]
    /\ UNCHANGED <<max_workers, allowed_commands, semaphore, running_tasks, proc,
                   canc, dispVars, sched, dbVars>>

\* Semaphore.acquire() when locked() and the semaphore is bound to another
\* loop: _get_loop raises RuntimeError.  "async with" (executor.py 237) is
\* outside the try of execute, and execute_with_retry catches nothing: the
\* exception leaves both, no result is returned
AcquireRaises(c) ==
    /\ task[c].pc = "acquire"
    /\ Locked
    /\ sem_loop \notin {None, task[c].loop}
    /\ task' = [task EXCEPT ![c].pc = "raised", ![c].result = NoResult]
    /\ UNCHANGED <<max_workers, allowed_commands, sem_loop, semaphore, running_tasks,
                   proc, canc, dispVars, sched, dbVars>>

\* the waiter that was handed a slot resumes in Semaphore.acquire():
\* "if self._value > 0: self._wake_up_next()", then it enters the block
WakeUp(c) ==
    /\ task[c].pc = "granted"
    /\ LET tk == [task EXCEPT ![c].pc = "spawn"]
           ws == {d \in Callers : tk[d].pc = "blocked"}
       IN IF semaphore > 0 /\ ws # {}
          THEN /\ semaphore' = semaphore - 1
               /\ \E d \in ws : task' = [tk EXCEPT ![d].pc = "granted"]
          ELSE /\ semaphore' = semaphore
               /\ task' = tk
    /\ UNCHANGED <<max_workers, allowed_commands, sem_loop, running_tasks, proc, canc,
                   dispVars, sched, dbVars>>

\* create_subprocess_shell returns; the process is tracked and the wait for
\* it begins (executor.py 240-256)
Spawn(c) ==
    /\ task[c].pc = "spawn"
    /\ LET p == <<c, task[c].spawned + 1>> IN
          /\ proc' = [q \in DOMAIN proc \cup {p} |->
                         IF q = p THEN [state |-> "alive", returncode |-> 0,
                                        out |-> <<Capture(0, 0), Capture(0, 0)>>,
                                        timed_out |-> FALSE]
                         ELSE proc[q]]
          /\ running_tasks' = Track(running_tasks, task[c].cur_id, p)
    /\ task' = [task EXCEPT ![c].pc = "waiting",
                            ![c].spawned = @ + 1,
                            ![c].elapsed = 0]
    /\ UNCHANGED <<max_workers, allowed_commands, sem_loop, semaphore, canc, dispVars, sched, dbVars>>

\* faulty variant of SpawnFails: no outer except, the exception of
\* create_subprocess_shell leaves execute after the finally clause and the
\* release of the slot
SpawnFails_Propagates(c) ==
    /\ task[c].pc = "spawn"
    /\ running_tasks' = Untrack(running_tasks, task[c].cur_id)
    /\ Release([task EXCEPT ![c].pc = "raised", ![c].result = NoResult])
    /\ proc' = Collect(proc, running_tasks', task', canc)
    /\ UNCHANGED <<max_workers, allowed_commands, sem_loop, canc, dispVars, sched, dbVars>>

\* create_subprocess_shell raises: the outer except (executor.py 317-329)
SpawnFails(c) ==
    /\ task[c].pc = "spawn"
    /\ running_tasks' = Untrack(running_tasks, task[c].cur_id)
    /\ Release([task EXCEPT ![c] = AfterExecute(task[c], ExceptionResult)])
    /\ proc' = Collect(proc, running_tasks', task', canc)
    /\ UNCHANGED <<max_workers, allowed_commands, sem_loop, canc, dispVars, sched, dbVars>>

\* a process ends by itself, with an exit code and its output
ProcExit(p) ==
    /\ p \in DOMAIN proc
    /\ proc[p].state = "alive"
    /\ \E rc \in ReturnCodes, o \in Outputs :
          proc' = Collect([proc EXCEPT ![p].state = "exited",
                                       ![p].returncode = rc,
                                       ![p].out = o],
                          running_tasks, task, canc)
    /\ UNCHANGED <<max_workers, allowed_commands, sem_loop, semaphore, running_tasks, task,
                   canc, dispVars, sched, dbVars>>

\* a process that was sent SIGKILL is gone
ProcReaped(p) ==
    /\ p \in DOMAIN proc
    /\ proc[p].state = "killing"
    /\ proc' = Collect([proc EXCEPT ![p].state = "killed",
                                    ![p].returncode = SIGKILLCode],
                       running_tasks, task, canc)
    /\ UNCHANGED <<max_workers, allowed_commands, sem_loop, semaphore, running_tasks, task,
                   canc, dispVars, sched, dbVars>>

\* process.communicate() returns before the timeout (executor.py 258-291)
CommunicateReturns(c) ==
    /\ task[c].pc = "waiting"
    /\ IsDead(Pid(c))
    /\ running_tasks' = Untrack(running_tasks, task[c].cur_id)
    /\ Release([task EXCEPT ![c] =
                   AfterExecute(task[c],
                                CompletedResult(proc[Pid(c)].returncode,
                                                proc[Pid(c)].out,
                                                Duration(task[c].elapsed)))])
    /\ proc' = Collect(proc, running_tasks', task', canc)
    /\ UNCHANGED <<max_workers, allowed_commands, sem_loop, canc, dispVars, sched, dbVars>>

\* the wait raises something other than TimeoutError: the outer except
\* (executor.py 317-329)
CommunicateRaises(c) ==
    /\ task[c].pc = "waiting"
    /\ running_tasks' = Untrack(running_tasks, task[c].cur_id)
    /\ Release([task EXCEPT ![c] = AfterExecute(task[c], ExceptionResult)])
    /\ proc' = Collect(proc, running_tasks', task', canc)
    /\ UNCHANGED <<max_workers, allowed_commands, sem_loop, canc, dispVars, sched, dbVars>>

\* asyncio.wait_for raises TimeoutError: process.kill(), then the wait for
\* the process begins (executor.py 293-297)
Timeout(c) ==
    /\ task[c].pc = "waiting"
    /\ task[c].elapsed >= task[c].timeout * Res
    /\ proc' = [Kill(proc, Pid(c)) EXCEPT ![Pid(c)].timed_out = TRUE]
    /\ task' = [task EXCEPT ![c].pc = "killwait"]
    /\ UNCHANGED <<max_workers, allowed_commands, sem_loop, semaphore, running_tasks, canc,
                   dispVars, sched, dbVars>>

\* faulty variant of WaitReturns: the timeout path does not wait for the
\* killed process
WaitReturns_NoTeardown(c) ==
    /\ task[c].pc = "killwait"
    /\ running_tasks' = Untrack(running_tasks, task[c].cur_id)
    /\ Release([task EXCEPT ![c] =
                   AfterExecute(task[c],
                                TimeoutResult(task[c].timeout,
                                              Duration(task[c].elapsed)))])
    /\ proc' = Collect(proc, running_tasks', task', canc)
    /\ UNCHANGED <<max_workers, allowed_commands, sem_loop, canc, dispVars, sched, dbVars>>

\* process.wait() returns on the timeout path (executor.py 297-315)
WaitReturns(c) ==
    /\ task[c].pc = "killwait"
    /\ IsDead(Pid(c))
    /\ running_tasks' = Untrack(running_tasks, task[c].cur_id)
    /\ Release([task EXCEPT ![c] =
                   AfterExecute(task[c],
                                TimeoutResult(task[c].timeout,
                                              Duration(task[c].elapsed)))])
    /\ proc' = Collect(proc, running_tasks', task', canc)
    /\ UNCHANGED <<max_workers, allowed_commands, sem_loop, canc, dispVars, sched, dbVars>>

\* asyncio.sleep(retry_delay) returns: the next iteration of the retry loop
\* (executor.py 170-182)
Wake(c) ==
    /\ task[c].pc = "sleeping"
    /\ task' = [task EXCEPT ![c] =
                   EnterExecute([task[c] EXCEPT !.attempt = @ + 1],
                                AttemptKey(task[c].execution_id,
                                           task[c].attempt + 2))]
    /\ UNCHANGED <<max_workers, allowed_commands, sem_loop, semaphore, running_tasks, proc,
                   canc, dispVars, sched, dbVars>>

\* is_running(execution_id) (executor.py 349-351)
is_running(key) == key \in DOMAIN running_tasks

\* cancel(key) is called next after a cancel(key) that returned True
Again(key) == canc.ret = "True" /\ canc.key = key

\* faulty variant of CancelCall: a key that is not tracked is answered True
CancelCall_TrueWhenUntracked ==
    /\ canc.pc = "idle"
    /\ \E key \in {AttemptKey(k, n) : k \in Keys, n \in 0..MaxRetries} :
          IF key \notin DOMAIN running_tasks
          THEN /\ canc' = [IdleCanc EXCEPT !.key = key, !.ret = "True",
                                           !.again = Again(key)]
               /\ proc' = proc
          ELSE /\ canc' = [pc |-> "wait", key |-> key, pid |-> running_tasks[key],
                           ret |-> None, again |-> Again(key),
                           late |-> proc[running_tasks[key]].timed_out]
               /\ proc' = Kill(proc, running_tasks[key])
    /\ UNCHANGED <<max_workers, allowed_commands, sem_loop, semaphore, running_tasks, task,
                   dispVars, sched, dbVars>>

\* cancel(key) up to "await process.wait()" (executor.py 331-340).  The
\* record of the call keeps the key and the process of the last call, and
\* whether the wait for that process had already timed out (late)
CancelCall ==
    /\ canc.pc = "idle"
    /\ \E key \in {AttemptKey(k, n) : k \in Keys, n \in 0..MaxRetries} :
          IF key \notin DOMAIN running_tasks
          THEN /\ canc' = [IdleCanc EXCEPT !.key = key, !.ret = "False",
                                           !.again = Again(key)]
               /\ proc' = proc
          ELSE /\ canc' = [pc |-> "wait", key |-> key, pid |-> running_tasks[key],
                           ret |-> None, again |-> Again(key),
                           late |-> proc[running_tasks[key]].timed_out]
               /\ proc' = Kill(proc, running_tasks[key])
    /\ UNCHANGED <<max_workers, allowed_commands, sem_loop, semaphore, running_tasks, task,
                   dispVars, sched, dbVars>>

\* faulty variant of CancelWaitReturns: cancel gives the slot of the run back
CancelWaitReturns_ReleasesSlot ==
    /\ canc.pc = "wait"
    /\ IsDead(canc.pid)
    /\ running_tasks' = Untrack(running_tasks, canc.key)
    /\ semaphore' = semaphore + 1
    /\ canc' = [canc EXCEPT !.pc = "idle", !.ret = "True"]
    /\ proc' = Collect(proc, running_tasks', task, canc')
    /\ UNCHANGED <<max_workers, allowed_commands, sem_loop, task, dispVars, sched, dbVars>>

\* cancel: process.wait() returns, the finally clause and the return
\* (executor.py 340-347)
CancelWaitReturns ==
    /\ canc.pc = "wait"
    /\ IsDead(canc.pid)
    /\ running_tasks' = Untrack(running_tasks, canc.key)
    /\ canc' = [canc EXCEPT !.pc = "idle", !.ret = "True"]
    /\ proc' = Collect(proc, running_tasks', task, canc')
    /\ UNCHANGED <<max_workers, allowed_commands, sem_loop, semaphore, task, dispVars, sched, dbVars>>

\* time passes: a tick of the clock, seen by every caller between its
\* start_time = datetime.utcnow() and its end_time = datetime.utcnow()
Timing(c) == task[c].pc \in {"waiting", "killwait"}

Tick ==
    /\ \E c \in Callers : Timing(c)
    /\ \A c \in Callers : Timing(c) => task[c].elapsed < MaxTime
    /\ task' = [c \in Callers |->
                   IF Timing(c) THEN [task[c] EXCEPT !.elapsed = @ + 1] ELSE task[c]]
    /\ UNCHANGED <<max_workers, allowed_commands, sem_loop, semaphore, running_tasks, proc,
                   canc, dispVars, sched, dbVars>>


(***************************************************************************)
(* The store's Task rows and the dependency gate.                          *)
(***************************************************************************)
\* identities of the jobs the store may hold; "j3" is the identity of no job
JobIds == {"j1", "j2"}

\* a dependency identity as stored in Task.dependencies: text in one of the
\* forms uuid.UUID accepts ("canon": 8-4-4-4-12 hex digits, "braced": the same
\* in braces) or text that is no UUID ("bad")
Dep(form, id) == [form |-> form, id |-> id]

\* uuid.UUID(dep_id): the identity the text denotes; raises ValueError on
\* text that is no UUID
UUIDParse(d) == IF d.form \in {"canon", "braced"}
                THEN [ok |-> TRUE, id |-> d.id]
                ELSE [ok |-> FALSE, id |-> None]

\* TaskService.get_task
get_task(store, id) == IF id \in DOMAIN store THEN <<store[id]>> ELSE <<>>

\* faulty variant of CheckOne: is_active is not looked at
CheckOne_IgnoresActive(store, d) ==
    LET u == UUIDParse(d) IN
    IF ~u.ok THEN <<[kind |-> "Invalid dependency ID format", who |-> d.id,
                     status |-> None]>>
    ELSE LET dep_task == get_task(store, u.id) IN
         IF dep_task = <<>>
         THEN <<[kind |-> "Dependency task not found", who |-> d.id,
                 status |-> None]>>
         ELSE IF dep_task[1].status # "completed"
         THEN <<[kind |-> "not completed", who |-> dep_task[1].name,
                 status |-> dep_task[1].status]>>
         ELSE <<>>

\* faulty variant of CheckOne: the dependency's status is not looked at
CheckOne_IgnoresStatus(store, d) ==
    LET u == UUIDParse(d) IN
    IF ~u.ok THEN <<[kind |-> "Invalid dependency ID format", who |-> d.id,
                     status |-> None]>>
    ELSE LET dep_task == get_task(store, u.id) IN
         IF dep_task = <<>>
         THEN <<[kind |-> "Dependency task not found", who |-> d.id,
                 status |-> None]>>
         ELSE IF ~dep_task[1].is_active
         THEN <<[kind |-> "is disabled", who |-> dep_task[1].name,
                 status |-> None]>>
         ELSE <<>>

\* one iteration of the loop of check_dependencies (task_service.py 66-87):
\* the reason the dependency blocks, <<>> when it does not
CheckOne(store, d) ==
    LET u == UUIDParse(d) IN
    IF ~u.ok THEN <<[kind |-> "Invalid dependency ID format", who |-> d.id,
                     status |-> None]>>
    ELSE LET dep_task == get_task(store, u.id) IN
         IF dep_task = <<>>
         THEN <<[kind |-> "Dependency task not found", who |-> d.id,
                 status |-> None]>>
         ELSE IF ~dep_task[1].is_active
         THEN <<[kind |-> "is disabled", who |-> dep_task[1].name,
                 status |-> None]>>
         ELSE IF dep_task[1].status # "completed"
         THEN <<[kind |-> "not completed", who |-> dep_task[1].name,
                 status |-> dep_task[1].status]>>
         ELSE <<>>

IdleGate == [pc |-> "idle", deps |-> <<>>, i |-> 0, ok |-> FALSE, reason |-> <<>>]

\* check_dependencies up to its loop (task_service.py 62-64)
GateBegin(store, j) ==
    LET t == get_task(store, j) IN
    IF t = <<>> \/ t[1].dependencies = <<>>
    THEN [pc |-> "done", deps |-> <<>>, i |-> 0, ok |-> TRUE, reason |-> <<>>]
    ELSE [pc |-> "loop", deps |-> t[1].dependencies, i |-> 1, ok |-> FALSE,
          reason |-> <<>>]

\* one iteration of the loop, and the return after the last one
\* (task_service.py 66-89)
GateStep(store, g) ==
    LET r == CheckOne(store, g.deps[g.i]) IN
    IF r # <<>> THEN [g EXCEPT !.pc = "done", !.ok = FALSE, !.reason = r]
    ELSE IF g.i = Len(g.deps) THEN [g EXCEPT !.pc = "done", !.ok = TRUE]
    ELSE [g EXCEPT !.i = @ + 1]


(***************************************************************************)
(* The dispatch paths: on_schedule_trigger (main.py), execute_task and     *)
(* webhook_trigger_task with _execute_task_async (api/routes/tasks.py).    *)
(* Every call into the store is an await, hence an action of its own.      *)
(***************************************************************************)
\* TaskExecution.id of the row a dispatch creates, by caller
ExecIds == <<"x1", "x2", "x3", "x4">>

IdleDisp == [origin |-> None, pc |-> "idle", job |-> None, gate |-> IdleGate,
             row |-> <<>>, exec |-> <<>>, http |-> 0, trace |-> <<>>]

\* the row of job j with its status set (TaskService.update_task_status)
SetStatus(store, j, st) ==
    IF j \in DOMAIN store THEN [store EXCEPT ![j].status = st] ELSE store

\* where a dispatch goes when check_dependencies has returned
AfterGate(d) ==
    IF d.gate.pc # "done" THEN [d EXCEPT !.pc = "gate"]
    ELSE LET d1 == [d EXCEPT !.trace = Append(@, "gate")] IN
         CASE d.origin = "scheduled" ->
                  [d1 EXCEPT !.pc = IF d.gate.ok THEN "notify_start"
                                    ELSE "blocked_status"]
           [] d.origin = "manual" ->
                  IF d.gate.ok THEN [d1 EXCEPT !.pc = "create_exec"]
                  ELSE [d1 EXCEPT !.pc = "done", !.http = 400]
           [] OTHER -> [d1 EXCEPT !.pc = "done", !.http = 200]

\* faulty variant of StartScheduled: is_active is not looked at
StartScheduled_IgnoresActive(c) ==
    /\ "scheduled" \in Origins[c]
    /\ task[c].pc = "idle"
    /\ disp[c].origin = None
    /\ \E j \in JobIds \cup {"j3"} :
          LET t == get_task(jobs, j) IN
          disp' = [disp EXCEPT ![c] =
                      IF t = <<>>
                      THEN [IdleDisp EXCEPT !.origin = "scheduled", !.job = j,
                                            !.pc = "done"]
                      ELSE [IdleDisp EXCEPT !.origin = "scheduled", !.job = j,
                                            !.row = t, !.pc = "gate_begin"]]
    /\ UNCHANGED <<execVars, jobs, sched, dbVars>>

\* on_schedule_trigger up to check_dependencies (main.py 61-69)
StartScheduled(c) ==
    /\ "scheduled" \in Origins[c]
    /\ task[c].pc = "idle"
    /\ disp[c].origin = None
    /\ \E j \in JobIds \cup {"j3"} :
          LET t == get_task(jobs, j) IN
          disp' = [disp EXCEPT ![c] =
                      IF t = <<>> \/ ~t[1].is_active
                      THEN [IdleDisp EXCEPT !.origin = "scheduled", !.job = j,
                                            !.pc = "done"]
                      ELSE [IdleDisp EXCEPT !.origin = "scheduled", !.job = j,
                                            !.row = t, !.pc = "gate_begin"]]
    /\ UNCHANGED <<execVars, jobs, sched, dbVars>>

\* execute_task up to check_dependencies (tasks.py 185-200)
StartManual(c) ==
    /\ "manual" \in Origins[c]
    /\ task[c].pc = "idle"
    /\ disp[c].origin = None
    /\ \E j \in JobIds \cup {"j3"}, authorized \in BOOLEAN :
          LET t == get_task(jobs, j) IN
          disp' = [disp EXCEPT ![c] =
                      IF t = <<>>
                      THEN [IdleDisp EXCEPT !.origin = "manual", !.job = j,
                                            !.pc = "done", !.http = 404]
                      ELSE IF ~authorized
                      THEN [IdleDisp EXCEPT !.origin = "manual", !.job = j,
                                            !.pc = "done", !.http = 403]
                      ELSE [IdleDisp EXCEPT !.origin = "manual", !.job = j,
                                            !.row = t, !.pc = "gate_begin"]]
    /\ UNCHANGED <<execVars, jobs, sched, dbVars>>

\* webhook_trigger_task up to create_execution (tasks.py 390-407)
StartWebhook(c) ==
    /\ "webhook" \in Origins[c]
    /\ task[c].pc = "idle"
    /\ disp[c].origin = None
    /\ \E j \in JobIds \cup {"j3"}, token_ok \in BOOLEAN :
          LET t == get_task(jobs, j) IN
          disp' = [disp EXCEPT ![c] =
                      IF t = <<>>
                      THEN [IdleDisp EXCEPT !.origin = "webhook", !.job = j,
                                            !.pc = "done", !.http = 404]
                      ELSE IF ~token_ok
                      THEN [IdleDisp EXCEPT !.origin = "webhook", !.job = j,
                                            !.pc = "done", !.http = 401]
                      ELSE [IdleDisp EXCEPT !.origin = "webhook", !.job = j,
                                            !.row = t, !.pc = "create_exec"]]
    /\ UNCHANGED <<execVars, jobs, sched, dbVars>>

\* get_task_dependencies up to check_dependencies (tasks.py 353-368)
StartDiagnostic(c) ==
    /\ task[c].pc = "idle"
    /\ disp[c].origin \in {None, "diagnostic"}
    /\ disp[c].pc \in {"idle", "done"}
    /\ \E j \in JobIds \cup {"j3"}, authorized \in BOOLEAN :
          LET t == get_task(jobs, j) IN
          disp' = [disp EXCEPT ![c] =
                      IF t = <<>>
                      THEN [IdleDisp EXCEPT !.origin = "diagnostic", !.job = j,
                                            !.pc = "done", !.http = 404]
                      ELSE IF ~authorized
                      THEN [IdleDisp EXCEPT !.origin = "diagnostic", !.job = j,
                                            !.pc = "done", !.http = 403]
                      ELSE [IdleDisp EXCEPT !.origin = "diagnostic", !.job = j,
                                            !.row = t, !.pc = "gate_begin"]]
    /\ UNCHANGED <<execVars, jobs, sched, dbVars>>

\* check_dependencies: the read of the job (task_service.py 62-64)
GateEnter(c) ==
    /\ disp[c].pc = "gate_begin"
    /\ disp' = [disp EXCEPT ![c] =
                   AfterGate([disp[c] EXCEPT !.gate = GateBegin(jobs, disp[c].job)])]
    /\ UNCHANGED <<execVars, jobs, sched, dbVars>>

\* check_dependencies: the read and check of one dependency
\* (task_service.py 66-89)
GateLoop(c) ==
    /\ disp[c].pc = "gate"
    /\ disp' = [disp EXCEPT ![c] =
                   AfterGate([disp[c] EXCEPT !.gate = GateStep(jobs, disp[c].gate)])]
    /\ UNCHANGED <<execVars, jobs, sched, dbVars>>

\* update_task_status(FAILED) of a blocked scheduled dispatch (main.py 74)
BlockedSetStatus(c) ==
    /\ disp[c].pc = "blocked_status"
    /\ jobs' = SetStatus(jobs, disp[c].job, "failed")
    /\ disp' = [disp EXCEPT ![c].pc = "blocked_notify",
                            ![c].trace = Append(@, "job_failed")]
    /\ UNCHANGED <<execVars, sched, dbVars>>

\* create_execution (main.py 95, tasks.py 208, 407)
CreateExecution(c) ==
    /\ disp[c].pc = "create_exec"
    /\ disp' = [disp EXCEPT
                   ![c].pc = IF disp[c].origin = "scheduled" THEN "exec_running"
                             ELSE "async_get",
                   ![c].exec = <<[status |-> "pending", attempt_number |-> 1,
                                  ended |-> FALSE]>>,
                   ![c].trace = Append(@, "exec_created")]
    /\ UNCHANGED <<execVars, jobs, sched, dbVars>>

\* _execute_task_async: its read of the job (tasks.py 431-433)
AsyncGetTask(c) ==
    /\ disp[c].pc = "async_get"
    /\ LET t == get_task(jobs, disp[c].job) IN
       disp' = [disp EXCEPT ![c] =
                   IF t = <<>> THEN [disp[c] EXCEPT !.pc = "done", !.http = 200]
                   ELSE [disp[c] EXCEPT !.pc = "exec_running", !.row = t]]
    /\ UNCHANGED <<execVars, jobs, sched, dbVars>>

\* update_execution(RUNNING) (main.py 96, tasks.py 436-438)
ExecutionRunning(c) ==
    /\ disp[c].pc = "exec_running"
    /\ disp' = [disp EXCEPT ![c].pc = "job_running",
                            ![c].exec = <<[@[1] EXCEPT !.status = "running"]>>,
                            ![c].trace = Append(@, "exec_running")]
    /\ UNCHANGED <<execVars, jobs, sched, dbVars>>

\* update_task_status(RUNNING), which refreshes the loaded row, and the call
\* of execute_with_retry up to its first await (main.py 97-105,
\* tasks.py 440-449)
JobRunning(c) ==
    /\ disp[c].pc = "job_running"
    /\ LET t == get_task(jobs, disp[c].job)
           row == IF t = <<>> THEN disp[c].row[1] ELSE [t[1] EXCEPT !.status = "running"]
       IN /\ jobs' = SetStatus(jobs, disp[c].job, "running")
          /\ disp' = [disp EXCEPT ![c].pc = "executing",
                                  ![c].row = <<row>>,
                                  ![c].trace = Append(@, "job_running")]
          /\ task' = [task EXCEPT ![c] =
                         EnterExecuteWithRetry(
                             [IdleTask EXCEPT !.kind = "retry",
                                              !.loop = IF disp[c].origin = "scheduled"
                                                       THEN ThreadLoop(c) ELSE "main",
                                              !.execution_id = ExecIds[c],
                                              !.arg = row.command,
                                              !.command = row.command,
                                              !.timeout = row.timeout,
                                              !.max_retries = row.max_retries])]
    /\ UNCHANGED <<max_workers, allowed_commands, sem_loop, semaphore, running_tasks, proc,
                   canc, sched, dbVars>>

\* status_map.get(result["status"], FAILED)
ExecStatus(result) ==
    IF result.status \in {"completed", "failed", "timeout"} THEN result.status
    ELSE "failed"

\* update_execution with the result (main.py 107-124, tasks.py 451-470)
RecordExecution(c) ==
    /\ disp[c].pc = "executing"
    /\ task[c].pc = "returned"
    /\ disp' = [disp EXCEPT
                   ![c].pc = "job_final",
                   ![c].exec = <<[status |-> ExecStatus(task[c].result),
                                  attempt_number |->
                                      IF task[c].result.attempt_number = 0 THEN 1
                                      ELSE task[c].result.attempt_number,
                                  ended |-> TRUE]>>,
                   ![c].trace = Append(@, "exec_final")]
    /\ UNCHANGED <<execVars, jobs, sched, dbVars>>

\* execute_with_retry raised: on_schedule_trigger logs the exception
\* (main.py 146-149), the API's handlers let it pass and the request is
\* answered with status 500; the rows stay as they are
ExecuteRaised(c) ==
    /\ disp[c].pc = "executing"
    /\ task[c].pc = "raised"
    /\ disp' = [disp EXCEPT
                   ![c].pc = "done",
                   ![c].http = IF disp[c].origin = "scheduled" THEN 0 ELSE 500,
                   ![c].trace = Append(@, "raised")]
    /\ UNCHANGED <<execVars, jobs, sched, dbVars>>

\* update_task_status with the final status (main.py 126-131,
\* tasks.py 472-478)
RecordJobStatus(c) ==
    /\ disp[c].pc = "job_final"
    /\ jobs' = SetStatus(jobs, disp[c].job,
                         IF disp[c].exec[1].status = "completed" THEN "completed"
                         ELSE "failed")
    /\ disp' = [disp EXCEPT
                   ![c].pc = IF disp[c].origin = "scheduled" THEN "notify_final"
                             ELSE "done",
                   ![c].http = IF disp[c].origin = "scheduled" THEN 0 ELSE 200,
                   ![c].trace = Append(@, "job_final")]
    /\ UNCHANGED <<execVars, sched, dbVars>>


(***************************************************************************)
(* The scheduler: TaskScheduler over an APScheduler AsyncIOScheduler with  *)
(* a memory job store and a thread pool executor (scheduler.py 21-40).     *)
(* Time is counted in ticks of one second; an operation called at tick n   *)
(* happens after the instant n, so a trigger asked for its next fire time  *)
(* answers with an instant after n.                                        *)
(***************************************************************************)
\* the clock stops at MaxNow
MaxNow == 3

\* calls of add_task / remove_task / pause_task / resume_task after startup
MaxOps == 2

\* settings.scheduler_max_workers, the threads of the pool, is at most
SchedulerMaxWorkers == 2

\* job_defaults (scheduler.py 31-35); misfire_grace_time in ticks
Coalesce == FALSE
MaxInstances == 1
MisfireGraceTime == 1

SchedIds == {"j1", "j2"}

Digits == ("0" :> 0) @@ ("1" :> 1) @@ ("2" :> 2) @@ ("3" :> 3)

\* int(text): surrounding whitespace is dropped, a sign may lead, and the
\* digits may be grouped by single underscores; <<>> where int raises
\* ValueError
IntOf(text) ==
    LET RECURSIVE val(_)
        val(t) == IF t = <<>> THEN 0
                  ELSE IF t[Len(t)] = "_" THEN val(SubSeq(t, 1, Len(t) - 1))
                  ELSE 10 * val(SubSeq(t, 1, Len(t) - 1)) + Digits[t[Len(t)]]
        stripped == Strip(text)
        signed == stripped # <<>> /\ stripped[1] \in {"+", "-"}
        body == IF signed THEN Tail(stripped) ELSE stripped
    IN IF /\ body # <<>>
          /\ \A i \in 1..Len(body) : body[i] \in DOMAIN Digits \cup {"_"}
          /\ body[1] # "_"
          /\ body[Len(body)] # "_"
          /\ \A i \in 1..(Len(body) - 1) : ~(body[i] = "_" /\ body[i + 1] = "_")
       THEN <<IF signed /\ stripped[1] = "-" THEN 0 - val(body) ELSE val(body)>>
       ELSE <<>>

\* a trigger fires at start, start + every, start + 2 * every, ...
Trigger(every, start, timezone) ==
    [every |-> every, start |-> start, timezone |-> timezone]

\* _parse_interval_trigger (scheduler.py 202-227): the trigger, or <<>> where
\* it raises; IntervalTrigger starts one interval after its creation and
\* takes an interval of length 0 as one second
_parse_interval_trigger(schedule, timezone, now) ==
    IF schedule = <<>> THEN <<>>
    ELSE LET unit == Lower(schedule[Len(schedule)])
             value == IntOf(SubSeq(schedule, 1, Len(schedule) - 1))
             secs == IF unit = "s" THEN 1 ELSE IF unit = "m" THEN 60
                     ELSE IF unit = "h" THEN 3600 ELSE IF unit = "d" THEN 86400 ELSE 0
         IN IF value = <<>> \/ secs = 0 THEN <<>>
            ELSE LET every == IF value[1] * secs = 0 THEN 1 ELSE value[1] * secs
                 IN <<Trigger(every, now + every, timezone)>>

\* CronTrigger.from_crontab(schedule): the period in ticks of the crontab
\* expressions of the model, "*" for every tick and "*/2" for every second
\* tick of the wall clock; <<>> where from_crontab raises ValueError
Crontab(schedule) ==
    IF schedule = <<"*">> THEN <<1>>
    ELSE IF schedule = <<"*", "/", "2">> THEN <<2>>
    ELSE <<>>

\* the time zones of the model and what their wall clocks are ahead of UTC,
\* in ticks
UtcOffset == [UTC |-> 0, Z1 |-> 1]

\* _create_trigger (scheduler.py 181-200): the trigger, or <<>> where it
\* raises ValueError; a cron trigger fires on the grid of the wall clock
_create_trigger(schedule_type, schedule, timezone, now) ==
    IF schedule_type = "cron"
    THEN IF Crontab(schedule) # <<>>
         THEN <<Trigger(Crontab(schedule)[1], UtcOffset[timezone] % Crontab(schedule)[1],
                        timezone)>>
         ELSE <<>>
    ELSE IF schedule_type = "interval" THEN _parse_interval_trigger(schedule, timezone, now)
    ELSE <<>>

\* the schedules add_task is called with
Schedules ==
    {<<"interval", <<"1", "s">>, "UTC">>, <<"interval", <<"2", "x">>, "UTC">>,
     <<"cron", <<"*", "/", "2">>, "UTC">>}

\* trigger.get_next_fire_time(None, now): the first fire time after now
NextFire(trig, now) ==
    IF trig.start > now THEN trig.start
    ELSE trig.start + ((now - trig.start) \div trig.every + 1) * trig.every

\* Job._get_run_times(now): the fire times from next_run_time up to now
RunTimes(job, now) ==
    IF job.next_run_time = <<>> \/ job.next_run_time[1] > now THEN <<>>
    ELSE [i \in 1..((now - job.next_run_time[1]) \div job.trigger.every + 1)
             |-> job.next_run_time[1] + (i - 1) * job.trigger.every]

\* run_times[-1:] if coalesce else run_times (APScheduler's _process_jobs)
Coalesced(times) == IF Coalesce /\ times # <<>> THEN <<times[Len(times)]>> ELSE times

\* a function of no argument
EmptyFn == [x \in {} |-> 0]

IdleSched ==
    [now |-> 0,             \* the clock
     up |-> TRUE,           \* the event loop runs the scheduler's wakeups
     max_workers |-> SchedulerMaxWorkers,  \* the threads of the pool
     jobs |-> EmptyFn,      \* TaskScheduler.jobs: id -> trigger of the Job
     store |-> <<>>,        \* the job store: Jobs [id, trigger, next_run_time]
     instances |-> [j \in SchedIds |-> 0],  \* the executor's _instances
     queue |-> <<>>,        \* the pool's work queue of [id, times]
     threads |-> <<>>,      \* the pool's busy threads: [id, times, busy, calls]
     invoked |-> [j \in SchedIds |-> <<>>], \* run times the callback was called for
     dropped |-> {},        \* <<id, run time>> given up as misfired
     skipped |-> {},        \* <<id, run time>> refused for max_instances
     ops |-> 0,
     last |-> [op |-> None, id |-> None, raised |-> FALSE, prev |-> <<None, None>>]]

\* f without the key k
Without(f, k) == [x \in DOMAIN f \ {k} |-> f[x]]

\* f with k bound to v
With(f, k, v) == [x \in DOMAIN f \cup {k} |-> IF x = k THEN v ELSE f[x]]

\* the sequence without its i-th element
RemoveAt(seq, i) == SubSeq(seq, 1, i - 1) \o SubSeq(seq, i + 1, Len(seq))

\* the Jobs of the store that are not registered under id
Others(store, id) == SelectSeq(store, LAMBDA j : j.id # id)

\* the Job add_job makes of a trigger
NewJob(id, trigger, now) ==
    [id |-> id, trigger |-> trigger, next_run_time |-> <<NextFire(trigger, now)>>]

\* remove_task (scheduler.py 116-127)
Removed(sc, id) ==
    IF id \in DOMAIN sc.jobs
    THEN [sc EXCEPT !.store = Others(@, id), !.jobs = Without(@, id)]
    ELSE sc

\* faulty variant of Added: no removal of the old Job and add_job without
\* replace_existing semantics, so the id is registered twice
Added_KeepsOld(sc, id, schedule_type, schedule, timezone) ==
    LET trigger == _create_trigger(schedule_type, schedule, timezone, sc.now)
    IN IF trigger = <<>> THEN sc
       ELSE [sc EXCEPT !.store = Append(@, NewJob(id, trigger[1], sc.now)),
                       !.jobs = With(@, id, trigger[1])]

\* add_task (scheduler.py 70-114): the scheduler after the call; where
\* _create_trigger raises, the old registration is gone and no new one is
\* made; add_job(id=task_id, replace_existing=True) replaces a Job of that id
Added(sc, id, schedule_type, schedule, timezone) ==
    LET s1 == Removed(sc, id)
        trigger == _create_trigger(schedule_type, schedule, timezone, sc.now)
    IN IF trigger = <<>> THEN s1
       ELSE [s1 EXCEPT !.store = Append(Others(@, id), NewJob(id, trigger[1], sc.now)),
                       !.jobs = With(@, id, trigger[1])]

\* faulty variant of Paused: pause_job removes the Job from the store
Paused_Unregisters(sc, id) ==
    IF id \in DOMAIN sc.jobs
    THEN [sc EXCEPT !.store = Others(@, id)]
    ELSE sc

\* pause_task (scheduler.py 129-136): pause_job takes the next run time away
Paused(sc, id) ==
    IF id \in DOMAIN sc.jobs
    THEN [sc EXCEPT !.store = [i \in DOMAIN sc.store |->
                                  IF sc.store[i].id = id
                                  THEN [sc.store[i] EXCEPT !.next_run_time = <<>>]
                                  ELSE sc.store[i]]]
    ELSE sc

\* resume_task (scheduler.py 138-145): resume_job asks the trigger for the
\* next fire time after now
Resumed(sc, id) ==
    IF id \in DOMAIN sc.jobs
    THEN [sc EXCEPT !.store = [i \in DOMAIN sc.store |->
                                  IF sc.store[i].id = id
                                  THEN [sc.store[i] EXCEPT !.next_run_time =
                                           <<NextFire(sc.store[i].trigger, sc.now)>>]
                                  ELSE sc.store[i]]]
    ELSE sc

\* an operation of the API was called
Called(sc, op, id, raised) ==
    [sc EXCEPT !.ops = @ + 1,
              !.last = [op |-> op, id |-> id, raised |-> raised,
                        prev |-> <<sc.last.op, sc.last.id>>]]

AddTask(id, schedule_type, schedule, timezone) ==
    /\ sched.up
    /\ sched.ops < MaxOps
    /\ sched' = Called(Added(sched, id, schedule_type, schedule, timezone), "add", id,
                       _create_trigger(schedule_type, schedule, timezone, sched.now) = <<>>)
    /\ UNCHANGED <<execVars, dispVars, dbVars>>

RemoveTask(id) ==
    /\ sched.up
    /\ sched.ops < MaxOps
    /\ sched' = Called(Removed(sched, id), "remove", id, FALSE)
    /\ UNCHANGED <<execVars, dispVars, dbVars>>

PauseTask(id) ==
    /\ sched.up
    /\ sched.ops < MaxOps
    /\ sched' = Called(Paused(sched, id), "pause", id, FALSE)
    /\ UNCHANGED <<execVars, dispVars, dbVars>>

ResumeTask(id) ==
    /\ sched.up
    /\ sched.ops < MaxOps
    /\ sched' = Called(Resumed(sched, id), "resume", id, FALSE)
    /\ UNCHANGED <<execVars, dispVars, dbVars>>

\* the Jobs of the store that are due
Due(sc) == {i \in DOMAIN sc.store : RunTimes(sc.store[i], sc.now) # <<>>}

\* a thread of the pool that starts run_job(job, run_times); calls counts the
\* calls of the job's function it has made
Thread(id, times) == [id |-> id, times |-> times, busy |-> FALSE, calls |-> 0]

\* faulty variant of Submit: a Job whose instance still runs is submitted
\* all the same
Submit_NoInstanceLimit(sc, id, times) ==
    LET s1 == [sc EXCEPT !.instances[id] = @ + 1]
    IN IF Len(sc.threads) < sc.max_workers
       THEN [s1 EXCEPT !.threads = Append(@, Thread(id, times))]
       ELSE [s1 EXCEPT !.queue = Append(@, [id |-> id, times |-> times])]

\* executor.submit_job(job, run_times): refused when max_instances of the
\* Job's id are running, else handed to a free thread of the pool or, when
\* all threads are busy, put on the pool's queue
Submit(sc, id, times) ==
    IF sc.instances[id] >= MaxInstances
    THEN [sc EXCEPT !.skipped = @ \cup {<<id, times[k]>> : k \in DOMAIN times}]
    ELSE LET s1 == [sc EXCEPT !.instances[id] = @ + 1]
         IN IF Len(sc.threads) < sc.max_workers
            THEN [s1 EXCEPT !.threads = Append(@, Thread(id, times))]
            ELSE [s1 EXCEPT !.queue = Append(@, [id |-> id, times |-> times])]

\* _process_jobs for the Jobs of the store from the i-th on: each due Job is
\* submitted with its run times and gets the fire time after the last of
\* them as next run time
RECURSIVE Processed(_, _)
Processed(sc, i) ==
    IF i > Len(sc.store) THEN sc
    ELSE LET job == sc.store[i]
             times == RunTimes(job, sc.now)
         IN IF times = <<>> THEN Processed(sc, i + 1)
            ELSE Processed([Submit(sc, job.id, Coalesced(times)) EXCEPT
                               !.store[i].next_run_time =
                                   <<times[Len(times)] + job.trigger.every>>],
                           i + 1)

\* the scheduler wakes up and processes the due Jobs
ProcessJobs ==
    /\ sched.up
    /\ Due(sched) # {}
    /\ sched' = Processed(sched, 1)
    /\ UNCHANGED <<execVars, dispVars, dbVars>>

\* faulty variant of RunNext: run_job calls the function for a run time of
\* any age
RunNext_NoGrace(i) ==
    /\ i \in DOMAIN sched.threads
    /\ ~sched.threads[i].busy
    /\ sched.threads[i].times # <<>>
    /\ sched' = [sched EXCEPT !.threads[i].busy = TRUE,
                              !.threads[i].calls = @ + 1,
                              !.invoked[sched.threads[i].id] =
                                  Append(@, Head(sched.threads[i].times))]
    /\ UNCHANGED <<execVars, dispVars, dbVars>>

\* run_job in a pool thread, at its next run time: one that is older than
\* misfire_grace_time is given up, for another sync_wrapper is called, which
\* runs the dispatch callback in an event loop of its own
RunNext(i) ==
    /\ i \in DOMAIN sched.threads
    /\ ~sched.threads[i].busy
    /\ sched.threads[i].times # <<>>
    /\ LET th == sched.threads[i]
           t == Head(th.times)
       IN IF sched.now - t > MisfireGraceTime
          THEN sched' = [sched EXCEPT !.threads[i].times = Tail(@),
                                      !.dropped = @ \cup {<<th.id, t>>}]
          ELSE sched' = [sched EXCEPT !.threads[i].busy = TRUE,
                                      !.threads[i].calls = @ + 1,
                                      !.invoked[th.id] = Append(@, t)]
    /\ UNCHANGED <<execVars, dispVars, dbVars>>

\* the dispatch callback returns and sync_wrapper with it
CallbackReturns(i) ==
    /\ i \in DOMAIN sched.threads
    /\ sched.threads[i].busy
    /\ sched' = [sched EXCEPT !.threads[i].busy = FALSE, !.threads[i].times = Tail(@)]
    /\ UNCHANGED <<execVars, dispVars, dbVars>>

\* faulty variant of JobDone: the thread ends without taking the next item
\* of the queue
JobDone_LeavesQueue(i) ==
    /\ i \in DOMAIN sched.threads
    /\ ~sched.threads[i].busy
    /\ sched.threads[i].times = <<>>
    /\ sched' = [sched EXCEPT !.instances[sched.threads[i].id] = @ - 1,
                              !.threads = RemoveAt(@, i)]
    /\ UNCHANGED <<execVars, dispVars, dbVars>>

\* run_job has handled its run times: the instance is counted off and the
\* thread takes the next item of the pool's queue, if there is one
JobDone(i) ==
    /\ i \in DOMAIN sched.threads
    /\ ~sched.threads[i].busy
    /\ sched.threads[i].times = <<>>
    /\ sched' = [sched EXCEPT
                    !.instances[sched.threads[i].id] = @ - 1,
                    !.threads = IF sched.queue = <<>> THEN RemoveAt(@, i)
                                ELSE Append(RemoveAt(@, i),
                                            Thread(Head(sched.queue).id,
                                                   Head(sched.queue).times)),
                    !.queue = IF @ = <<>> THEN @ ELSE Tail(@)]
    /\ UNCHANGED <<execVars, dispVars, dbVars>>

\* a second passes; a scheduler that runs has handled what was due by then
TickSched ==
    /\ sched.now < MaxNow
    /\ sched.up => Due(sched) = {}
    /\ sched' = [sched EXCEPT !.now = @ + 1]
    /\ UNCHANGED <<execVars, dispVars, dbVars>>

\* the scheduler becomes unavailable: its event loop is held up
Stall ==
    /\ sched.up
    /\ sched' = [sched EXCEPT !.up = FALSE]
    /\ UNCHANGED <<execVars, dispVars, dbVars>>

\* the scheduler is available again
Unstall ==
    /\ ~sched.up
    /\ sched' = [sched EXCEPT !.up = TRUE]
    /\ UNCHANGED <<execVars, dispVars, dbVars>>

(***************************************************************************)
(* Initial stores.                                                         *)
(***************************************************************************)
Statuses == {"pending", "running", "completed", "failed", "cancelled"}

Job(name, active, st, deps, cmd, retries) ==
    [name |-> name, is_active |-> active, status |-> st, dependencies |-> deps,
     command |-> cmd, timeout |-> 1, max_retries |-> retries]

\* dependency lists of job j1
DepLists ==
    {<<>>,
     <<Dep("canon", "j2")>>,
     <<Dep("braced", "j2")>>,
     <<Dep("bad", "j2")>>,
     <<Dep("canon", "j3")>>,
     <<Dep("canon", "j1")>>,
     <<Dep("canon", "j2"), Dep("canon", "j3")>>,
     <<Dep("canon", "j3"), Dep("canon", "j2")>>,
     <<Dep("canon", "j2"), Dep("braced", "j2")>>,
     <<Dep("canon", "j2"), Dep("canon", "j1")>>}

\* a store holding j1 with the dependency list deps and j2 without one
Store(deps, active2, st2) ==
    [j \in JobIds |->
        IF j = "j1" THEN Job("n1", TRUE, "pending", deps, cmdOk, MaxRetries)
        ELSE Job("n2", active2, st2, <<>>, cmdChainedRm, 1)]

(***************************************************************************)
(* PUT /tasks/{task_id}: update_task (api/routes/tasks.py 103-144) over    *)
(* TaskService.update_task (task_service.py 181-200) and the scheduler.    *)
(***************************************************************************)
\* the time zones requests name
Timezones == {"UTC", "Z1"}

\* the schedule expressions requests name
Expressions == {<<"1", "s">>, <<"2", "x">>, <<"*", "/", "2">>}

\* ScheduleType (schemas.py 21-26)
ScheduleTypes == {"cron", "interval", "once"}

\* the schedule columns of a Task row
Descriptor(schedule_type, schedule, timezone) ==
    [schedule_type |-> schedule_type, schedule |-> schedule, timezone |-> timezone]

\* the schedule fields of a TaskUpdate body; <<>> is a field that is not set
TaskUpdates ==
    [schedule_type : {<<>>} \cup {<<t>> : t \in ScheduleTypes},
     schedule : {<<>>} \cup {<<e>> : e \in Expressions},
     timezone : {<<>>} \cup {<<z>> : z \in Timezones}]

IdleNotif == [pc |-> "idle", user_id |-> None, event_type |-> None, task_id |-> None,
              configs |-> <<>>, i |-> 0, logs |-> <<>>]

NoCall == [id |-> None, schedule |-> <<>>, raised |-> FALSE]

IdleEdit == [pc |-> "idle", id |-> None, data |-> <<>>, before |-> <<>>, http |-> 0]

\* no notification configured or logged, no call of notify_task_event, no
\* TaskExecution row
InitRows ==
    /\ configs = <<>>
    /\ logs = <<>>
    /\ notif = IdleNotif
    /\ executions = <<>>

\* no request in progress and no row in the store
InitDb ==
    /\ schedules = EmptyFn
    /\ call = NoCall
    /\ edit = IdleEdit
    /\ InitRows

\* the route up to service.update_task: get_task and the ownership check
\* (tasks.py 113-124)
EditStart(id, task_data, authorized) ==
    /\ edit.pc \in {"idle", "done"}
    /\ edit' = IF id \notin DOMAIN schedules
               THEN [IdleEdit EXCEPT !.pc = "done", !.id = id, !.http = 404]
               ELSE IF ~authorized
               THEN [IdleEdit EXCEPT !.pc = "done", !.id = id, !.http = 403]
               ELSE [pc |-> "update", id |-> id, data |-> <<task_data>>,
                     before |-> <<schedules[id]>>, http |-> 0]
    /\ UNCHANGED <<execVars, dispVars, sched, schedules, call, notifVars, executions>>

\* setattr(task, field, value) for the fields of the body that are set
\* (task_service.py 190-196)
Updated(row, task_data) ==
    [f \in DOMAIN row |-> IF task_data[f] # <<>> THEN task_data[f][1] ELSE row[f]]

\* service.update_task: the row is changed and committed
\* (task_service.py 185-200)
EditCommit ==
    /\ edit.pc = "update"
    /\ schedules' = [schedules EXCEPT ![edit.id] = Updated(@, edit.data[1])]
    /\ edit' = [edit EXCEPT !.pc = "sync"]
    /\ UNCHANGED <<execVars, dispVars, sched, call, notifVars, executions>>

\* "Update scheduler if schedule changed" (tasks.py 129-142): the scheduler
\* after it, and whether add_task raised; row is the Task row, which
\* existing_task and the committed task both refer to
Rescheduled(sc, id, task_data, row) ==
    IF task_data.schedule_type # <<>> \/ task_data.schedule # <<>>
    THEN LET sched_type == IF task_data.schedule_type = <<>> THEN row.schedule_type
                           ELSE task_data.schedule_type[1]
             schedule == IF task_data.schedule # <<>> THEN task_data.schedule[1]
                         ELSE row.schedule
             timezone == IF task_data.timezone # <<>> THEN task_data.timezone[1]
                         ELSE row.timezone
         IN [sc |-> Added(Removed(sc, id), id, sched_type, schedule, timezone),
             raised |-> _create_trigger(sched_type, schedule, timezone, sc.now) = <<>>]
    ELSE [sc |-> sc, raised |-> FALSE]

\* the rest of the route: the scheduler is updated and the row returned; an
\* exception of add_task is answered with status 500
EditSync ==
    /\ edit.pc = "sync"
    /\ LET r == Rescheduled(sched, edit.id, edit.data[1], schedules[edit.id])
       IN /\ sched' = r.sc
          /\ edit' = [edit EXCEPT !.pc = "done",
                                  !.http = IF r.raised THEN 500 ELSE 200]
    /\ UNCHANGED <<execVars, dispVars, schedules, call, notifVars, executions>>

(***************************************************************************)
(* The notification service: notify_task_event over                        *)
(* get_user_notification_configs and send_notification                     *)
(* (services/notification_service.py).                                     *)
(***************************************************************************)
Users == {"u1", "u2"}

\* self.providers (notification_service.py 21-25)
Providers == {"email", "webhook", "sms"}

\* event_trigger_map (notification_service.py 195-199)
event_trigger_map == [success |-> "on_success", failure |-> "on_failure",
                      start |-> "on_start"]

\* the event types callers pass
EventTypes == {"start", "success", "failure", "retry"}

\* a NotificationConfig row; recipient is config.get("recipient"), <<>> for
\* none
NotificationConfig(id, user_id, task_id, channel, recipient, enabled, flags) ==
    [id |-> id, user_id |-> user_id, task_id |-> task_id, channel |-> channel,
     recipient |-> recipient, enabled |-> enabled, on_start |-> flags[1],
     on_success |-> flags[2], on_failure |-> flags[3]]

\* the rows an owner can have configured as the id-th row of the table
ConfigRows(id) ==
    {NotificationConfig(id, u, t, cr[1], cr[2], e, f) :
        u \in Users, t \in {None, "j1", "j2"},
        cr \in {<<"email", <<"r">>>>, <<"email", <<>>>>, <<"pager", <<"r">>>>},
        e \in BOOLEAN,
        f \in {<<TRUE, FALSE, FALSE>>, <<FALSE, TRUE, TRUE>>, <<FALSE, FALSE, TRUE>>}}

\* faulty variant of get_user_notification_configs: the user is not looked at
get_user_notification_configs_AnyUser(rows, user_id, task_id) ==
    SelectSeq(rows, LAMBDA c : task_id # None => c.task_id \in {task_id, None})

\* get_user_notification_configs (notification_service.py 27-45)
get_user_notification_configs(rows, user_id, task_id) ==
    SelectSeq(rows, LAMBDA c :
        /\ c.user_id = user_id
        /\ task_id # None => c.task_id \in {task_id, None})

\* the configs notify_task_event goes through: those of the query whose
\* flag for the event is set (notification_service.py 192-208)
ConfigsFor(rows, user_id, event_type, task_id) ==
    IF event_type \in DOMAIN event_trigger_map
    THEN SelectSeq(get_user_notification_configs(rows, user_id, task_id),
                   LAMBDA c : c[event_trigger_map[event_type]])
    ELSE <<>>

\* _build_notification_content (notification_service.py 239-259) as far as
\* the error goes: the "Error:" line it writes for execution_result["error"],
\* None when there is none, and for a blocked dispatch the reason of
\* check_dependencies that the error quotes
Content(error, reason) == [error |-> error, reason |-> reason]

\* a NotificationLog row as send_notification creates it
\* (notification_service.py 132-145); config names the NotificationConfig it
\* was created for and provider what the provider called for it reported
NotificationLog(config, user_id, task_id, event_type) ==
    [config |-> config.id, user_id |-> user_id, task_id |-> task_id,
     channel |-> config.channel, event_type |-> event_type,
     recipient |-> config.recipient[1], status |-> "pending", sent_at |-> FALSE,
     error_message |-> None, retry_count |-> 0, provider |-> None,
     content |-> Content(None, <<>>)]

\* the loop of notify_task_event from the i-th config on: configs without
\* recipient are passed over (notification_service.py 218-221)
RECURSIVE Continue(_, _)
Continue(n, i) ==
    IF i > Len(n.configs) THEN [n EXCEPT !.pc = "done", !.i = i]
    ELSE IF n.configs[i].recipient = <<>> THEN Continue(n, i + 1)
    ELSE [n EXCEPT !.pc = "create", !.i = i]

\* notify_task_event is called (main.py 76-85, 88-93, 137-144)
NotifyTaskEvent(user_id, event_type, task_id) ==
    /\ notif.pc = "idle"
    /\ notif' = [IdleNotif EXCEPT !.pc = "query", !.user_id = user_id,
                                  !.event_type = event_type, !.task_id = task_id]
    /\ UNCHANGED <<execVars, dispVars, sched, schedules, call, edit, configs, logs,
                   executions>>

\* the query returns; the configs are filtered by the flag of the event
\* (notification_service.py 192-208)
NotifySelect ==
    /\ notif.pc = "query"
    /\ notif' = Continue([notif EXCEPT !.configs =
                              ConfigsFor(configs, notif.user_id, notif.event_type,
                                         notif.task_id)], 1)
    /\ UNCHANGED <<execVars, dispVars, sched, schedules, call, edit, configs, logs,
                   executions>>

\* send_notification: the log entry is added and committed
\* (notification_service.py 132-145)
CreateLog ==
    /\ notif.pc = "create"
    /\ logs' = Append(logs, NotificationLog(notif.configs[notif.i], notif.user_id,
                                            notif.task_id, notif.event_type))
    /\ notif' = [notif EXCEPT !.pc = "send", !.logs = Append(@, Len(logs) + 1)]
    /\ UNCHANGED <<execVars, dispVars, sched, schedules, call, edit, configs,
                   executions>>

\* the log entry of a channel without provider
\* (notification_service.py 149-152)
LogUnknownChannel(log) ==
    [log EXCEPT !.status = "failed", !.error_message = "Unknown channel"]

\* send_notification: no provider for the channel
\* (notification_service.py 148-153)
UnknownChannel ==
    /\ notif.pc = "send"
    /\ notif.configs[notif.i].channel \notin Providers
    /\ logs' = [logs EXCEPT ![notif.logs[Len(notif.logs)]] = LogUnknownChannel(@)]
    /\ notif' = Continue(notif, notif.i + 1)
    /\ UNCHANGED <<execVars, dispVars, sched, schedules, call, edit, configs,
                   executions>>

\* faulty variant of LogUpdated: a failure is recorded as sent
LogUpdated_AlwaysSent(log, success) ==
    [log EXCEPT !.provider = IF success THEN "success" ELSE "failure",
                !.status = "sent", !.sent_at = TRUE]

\* the log entry after provider.send has returned
\* (notification_service.py 167-174)
LogUpdated(log, success) ==
    IF success
    THEN [log EXCEPT !.provider = "success", !.status = "sent", !.sent_at = TRUE]
    ELSE [log EXCEPT !.provider = "failure", !.status = "failed",
                     !.error_message = "error", !.retry_count = @ + 1]

\* send_notification: provider.send returns, the log entry is updated and
\* committed (notification_service.py 155-179); the providers catch their
\* exceptions and report them as a failure
ProviderReturns(success) ==
    /\ notif.pc = "send"
    /\ notif.configs[notif.i].channel \in Providers
    /\ logs' = [logs EXCEPT ![notif.logs[Len(notif.logs)]] = LogUpdated(@, success)]
    /\ notif' = Continue(notif, notif.i + 1)
    /\ UNCHANGED <<execVars, dispVars, sched, schedules, call, edit, configs,
                   executions>>

(***************************************************************************)
(* The notifications of a scheduled dispatch (main.py 76-93, 133-144).     *)
(***************************************************************************)
\* task.owner_id of the jobs of the store
Owner == "u1"

\* what the providers report for the sends of one call of
\* notify_task_event, by the id of the config
Sends == [1..Len(configs) -> BOOLEAN]

\* the log rows after send_notification was called for the configs chosen
\* that have a recipient, one after the other
RECURSIVE Sent(_, _, _, _, _, _, _)
Sent(lg, chosen, user_id, task_id, event_type, content, sends) ==
    IF chosen = <<>> THEN lg
    ELSE LET c == Head(chosen)
             row == [NotificationLog(c, user_id, task_id, event_type)
                         EXCEPT !.content = content]
             after == IF c.recipient = <<>> THEN lg
                      ELSE IF c.channel \notin Providers
                      THEN Append(lg, LogUnknownChannel(row))
                      ELSE Append(lg, LogUpdated(row, sends[c.id]))
         IN Sent(after, Tail(chosen), user_id, task_id, event_type, content, sends)

\* the log rows after a call of notify_task_event for the job's owner
Notified(lg, event_type, task_id, content, sends) ==
    Sent(lg, ConfigsFor(configs, Owner, event_type, task_id), Owner, task_id,
         event_type, content, sends)

\* faulty variant of BlockedNotify: the notification is sent without
\* execution_result
BlockedNotify_NoReason(c) ==
    /\ disp[c].pc = "blocked_notify"
    /\ \E sends \in Sends :
          logs' = Notified(logs, "failure", disp[c].job, Content(None, <<>>), sends)
    /\ disp' = [disp EXCEPT ![c].pc = "done",
                            ![c].trace = Append(@, "notify_failure")]
    /\ UNCHANGED <<execVars, jobs, sched, schedules, call, edit, configs, notif,
                   executions>>

\* the failure notification of a blocked scheduled dispatch (main.py 76-85)
BlockedNotify(c) ==
    /\ disp[c].pc = "blocked_notify"
    /\ \E sends \in Sends :
          logs' = Notified(logs, "failure", disp[c].job,
                           Content("Dependency not satisfied", disp[c].gate.reason),
                           sends)
    /\ disp' = [disp EXCEPT ![c].pc = "done",
                            ![c].trace = Append(@, "notify_failure")]
    /\ UNCHANGED <<execVars, jobs, sched, schedules, call, edit, configs, notif,
                   executions>>

\* faulty variant of NotifyStart: a send that failed ends the dispatch
NotifyStart_FailureAborts(c) ==
    /\ disp[c].pc = "notify_start"
    /\ \E sends \in Sends :
          /\ logs' = Notified(logs, "start", disp[c].job, Content(None, <<>>), sends)
          /\ disp' = [disp EXCEPT
                         ![c].pc = IF \E k \in DOMAIN logs' : logs'[k].status = "failed"
                                   THEN "done" ELSE "create_exec",
                         ![c].trace = Append(@, "notify_start")]
    /\ UNCHANGED <<execVars, jobs, sched, schedules, call, edit, configs, notif,
                   executions>>

\* the start notification (main.py 88-93)
NotifyStart(c) ==
    /\ disp[c].pc = "notify_start"
    /\ \E sends \in Sends :
          logs' = Notified(logs, "start", disp[c].job, Content(None, <<>>), sends)
    /\ disp' = [disp EXCEPT ![c].pc = "create_exec",
                            ![c].trace = Append(@, "notify_start")]
    /\ UNCHANGED <<execVars, jobs, sched, schedules, call, edit, configs, notif,
                   executions>>

\* the completion notification of a scheduled dispatch (main.py 133-144)
NotifyFinal(c) ==
    /\ disp[c].pc = "notify_final"
    /\ LET event_type == IF disp[c].exec[1].status = "completed" THEN "success"
                         ELSE "failure"
       IN /\ \E sends \in Sends :
                logs' = Notified(logs, event_type, disp[c].job,
                                 Content(task[c].result.error.kind, <<>>), sends)
          /\ disp' = [disp EXCEPT
                         ![c].pc = "done",
                         ![c].trace = Append(@, IF event_type = "success"
                                                THEN "notify_success"
                                                ELSE "notify_failure")]
    /\ UNCHANGED <<execVars, jobs, sched, schedules, call, edit, configs, notif,
                   executions>>

(***************************************************************************)
(* The TaskExecution rows: create_execution and update_execution           *)
(* (services/task_service.py 245-260, 295-333).                            *)
(***************************************************************************)
\* the table holds at most MaxRows rows
MaxRows == 2

\* TaskExecutionStatus (schemas.py 94-102)
TaskExecutionStatuses ==
    {"pending", "running", "completed", "failed", "timeout", "cancelled"}

\* create_execution(task_id, status): the new row; end_time is nullable and
\* has no default (models.py 121), FALSE stands for None
TaskExecution(task_id, status) ==
    [task_id |-> task_id, status |-> status, end_time |-> FALSE]

\* update_execution(execution_id, status, ...): the row after it
\* (task_service.py 314-328)
ExecutionUpdated(row, status) ==
    [row EXCEPT !.status = status,
                !.end_time = IF status \in {"completed", "failed", "timeout"} THEN TRUE
                             ELSE @]

CreateExecutionRow(task_id, status) ==
    /\ Len(executions) < MaxRows
    /\ executions' = Append(executions, TaskExecution(task_id, status))
    /\ UNCHANGED <<execVars, dispVars, sched, schedules, call, edit, notifVars>>

\* update_execution of an id that has no row returns None
UpdateExecutionRow(id, status) ==
    /\ executions' = IF id \in DOMAIN executions
                     THEN [executions EXCEPT ![id] = ExecutionUpdated(@, status)]
                     ELSE executions
    /\ UNCHANGED <<execVars, dispVars, sched, schedules, call, edit, notifVars>>

(***************************************************************************)
(* The Task rows: create_task, update_task and delete_task                 *)
(* (services/task_service.py 25-46, 181-229).                              *)
(***************************************************************************)
\* the fields of TaskUpdate (schemas.py 55-72) the gate reads; <<>> is a
\* field the request leaves unset
DependencyUpdates ==
    [dependencies : {<<>>} \cup {<<d>> : d \in DepLists},
     is_active : {<<>>, <<TRUE>>, <<FALSE>>}]

\* create_task: the row is built from the request as it is; status and
\* is_active take their defaults (task_service.py 27-40)
CreateTask(id, dependencies) ==
    /\ id \notin DOMAIN jobs
    /\ jobs' = [j \in DOMAIN jobs \cup {id} |->
                   IF j = id THEN Job("n1", TRUE, "pending", dependencies, cmdOk, MaxRetries)
                   ELSE jobs[j]]
    /\ UNCHANGED <<execVars, disp, sched, dbVars>>

\* update_task: every field the request sets is assigned to the row
\* (task_service.py 185-200); None for a job that does not exist
UpdateTask(id, task_data) ==
    /\ jobs' = IF id \in DOMAIN jobs
               THEN [jobs EXCEPT
                       ![id].dependencies =
                           IF task_data.dependencies # <<>>
                           THEN task_data.dependencies[1] ELSE @,
                       ![id].is_active =
                           IF task_data.is_active # <<>>
                           THEN task_data.is_active[1] ELSE @]
               ELSE jobs
    /\ UNCHANGED <<execVars, disp, sched, dbVars>>

\* the rows of a table that do not belong to job id
RowsNotOf(rows, id) == SelectSeq(rows, LAMBDA r : r.task_id # id)

\* delete_task: the job's notification logs, executions and notification
\* configs go, then the job itself (task_service.py 202-229); the rows of
\* other jobs are not looked at. For a job that does not exist it returns
\* False and nothing changes.
DeleteTask(id) ==
    /\ id \in DOMAIN jobs
    /\ logs' = RowsNotOf(logs, id)
    /\ executions' = RowsNotOf(executions, id)
    /\ configs' = RowsNotOf(configs, id)
    /\ jobs' = [j \in DOMAIN jobs \ {id} |-> jobs[j]]
    /\ UNCHANGED <<execVars, disp, sched, schedules, call, edit, notif>>

vars == <<execVars, dispVars, sched, dbVars>>

(***************************************************************************)
(* The engine on its own: callers of execute and execute_with_retry.       *)
(***************************************************************************)
Init ==
    /\ InitExec
    /\ jobs = Store(<<>>, TRUE, "pending")
    /\ disp = [c \in Callers |-> IdleDisp]
    /\ sched = IdleSched
    /\ InitDb

Next ==
    \/ \E c \in Callers : CallRun(c)
    \/ \E c \in Callers : CallRunWithRetry(c)
    \/ \E c \in Callers : AcquireSlot(c)
    \/ \E c \in Callers : AcquireBlocks(c)
    \/ \E c \in Callers : AcquireRaises(c)
    \/ \E c \in Callers : WakeUp(c)
    \/ \E c \in Callers : Spawn(c)
    \/ \E c \in Callers : SpawnFails(c)
    \/ \E p \in DOMAIN proc : ProcExit(p)
    \/ \E p \in DOMAIN proc : ProcReaped(p)
    \/ \E c \in Callers : CommunicateReturns(c)
    \/ \E c \in Callers : CommunicateRaises(c)
    \/ \E c \in Callers : Timeout(c)
    \/ \E c \in Callers : WaitReturns(c)
    \/ \E c \in Callers : Wake(c)
    \/ Tick

Spec == Init /\ [][Next]_vars

(***************************************************************************)
(* The engine with a caller of cancel.                                     *)
(***************************************************************************)
NextCancel ==
    \/ \E c \in Callers : CallRun(c)
    \/ \E c \in Callers : CallRunWithRetry(c)
    \/ \E c \in Callers : AcquireSlot(c)
    \/ \E c \in Callers : AcquireBlocks(c)
    \/ \E c \in Callers : AcquireRaises(c)
    \/ \E c \in Callers : WakeUp(c)
    \/ \E c \in Callers : Spawn(c)
    \/ \E c \in Callers : SpawnFails(c)
    \/ \E p \in DOMAIN proc : ProcExit(p)
    \/ \E p \in DOMAIN proc : ProcReaped(p)
    \/ \E c \in Callers : CommunicateReturns(c)
    \/ \E c \in Callers : CommunicateRaises(c)
    \/ \E c \in Callers : Timeout(c)
    \/ \E c \in Callers : WaitReturns(c)
    \/ \E c \in Callers : Wake(c)
    \/ CancelCall
    \/ CancelWaitReturns
    \/ Tick

SpecCancel == Init /\ [][NextCancel]_vars


(***************************************************************************)
(* The dependency gate on its own: GET /tasks/{id}/dependencies calls      *)
(* check_dependencies on a store that does not change meanwhile.           *)
(***************************************************************************)
InitGate ==
    /\ InitExec
    /\ jobs \in {Store(d, a, st) : d \in DepLists, a \in BOOLEAN, st \in Statuses}
    /\ disp = [c \in Callers |-> IdleDisp]
    /\ sched = IdleSched
    /\ InitDb

NextGate ==
    \/ \E c \in Callers : StartDiagnostic(c)
    \/ \E c \in Callers : GateEnter(c)
    \/ \E c \in Callers : GateLoop(c)

SpecGate == InitGate /\ [][NextGate]_vars

(***************************************************************************)
(* The dispatch paths over the engine.                                     *)
(***************************************************************************)
\* the owner of the jobs is notified by mail of the start of every job and
\* by webhook of the end of j1
OwnerConfigs ==
    <<NotificationConfig(1, Owner, None, "email", <<"r">>, TRUE, <<TRUE, FALSE, FALSE>>),
      NotificationConfig(2, Owner, "j1", "webhook", <<"r">>, TRUE, <<FALSE, TRUE, TRUE>>)>>

InitDispatch ==
    /\ InitExec
    /\ jobs \in {Store(<<Dep("canon", "j2")>>, TRUE, st) : st \in {"pending", "completed"}}
    /\ disp = [c \in Callers |-> IdleDisp]
    /\ sched = IdleSched
    /\ schedules = EmptyFn
    /\ call = NoCall
    /\ edit = IdleEdit
    /\ configs = OwnerConfigs
    /\ logs = <<>>
    /\ notif = IdleNotif
    /\ executions = <<>>

NextDispatch ==
    \/ \E c \in Callers : StartScheduled(c)
    \/ \E c \in Callers : StartManual(c)
    \/ \E c \in Callers : StartWebhook(c)
    \/ \E c \in Callers : GateEnter(c)
    \/ \E c \in Callers : GateLoop(c)
    \/ \E c \in Callers : BlockedSetStatus(c)
    \/ \E c \in Callers : BlockedNotify(c)
    \/ \E c \in Callers : NotifyStart(c)
    \/ \E c \in Callers : CreateExecution(c)
    \/ \E c \in Callers : AsyncGetTask(c)
    \/ \E c \in Callers : ExecutionRunning(c)
    \/ \E c \in Callers : JobRunning(c)
    \/ \E c \in Callers : RecordExecution(c)
    \/ \E c \in Callers : ExecuteRaised(c)
    \/ \E c \in Callers : RecordJobStatus(c)
    \/ \E c \in Callers : NotifyFinal(c)
    \/ \E c \in Callers : AcquireSlot(c)
    \/ \E c \in Callers : AcquireBlocks(c)
    \/ \E c \in Callers : AcquireRaises(c)
    \/ \E c \in Callers : WakeUp(c)
    \/ \E c \in Callers : Spawn(c)
    \/ \E c \in Callers : SpawnFails(c)
    \/ \E p \in DOMAIN proc : ProcExit(p)
    \/ \E p \in DOMAIN proc : ProcReaped(p)
    \/ \E c \in Callers : CommunicateReturns(c)
    \/ \E c \in Callers : CommunicateRaises(c)
    \/ \E c \in Callers : Timeout(c)
    \/ \E c \in Callers : WaitReturns(c)
    \/ \E c \in Callers : Wake(c)
    \/ Tick

SpecDispatch == InitDispatch /\ [][NextDispatch]_vars

\* The fairness of the dispatch paths is stated on JobRunning and Wake with
\* validate_command and sanitize_command read from tables over the commands
\* of the jobs, computed once: the same steps (SameSteps).
JobCommands == {cmdOk, cmdChainedRm}

SanitizeTable ==
    [cmd \in JobCommands \cup {sanitize_command(k) : k \in JobCommands} |->
        sanitize_command(cmd)]

ValidateTable == [cmd \in DOMAIN SanitizeTable |-> validate_command(cmd, {})]

EnterExecuteTabled(t, id) ==
    LET v == ValidateTable[t.command]
        t1 == [t EXCEPT !.cur_id = id, !.calls = @ + 1]
    IN IF ~v.ok
       THEN AfterExecute(t1, ValidationFailed(v.msg))
       ELSE [t1 EXCEPT !.pc = "acquire",
                       !.shell_command = SanitizeTable[t.command]]

EnterExecuteWithRetryTabled(t) ==
    LET v == ValidateTable[t.command] IN
    IF ~v.ok
    THEN [t EXCEPT !.pc = "returned", !.result = ValidationFailed(v.msg)]
    ELSE IF t.max_retries <= 0
    THEN [t EXCEPT !.pc = "returned", !.command = SanitizeTable[t.command],
                   !.result = NoAttemptResult]
    ELSE EnterExecuteTabled([t EXCEPT !.command = SanitizeTable[t.command]],
                            AttemptKey(t.execution_id, 1))

JobRunningTabled(c) ==
    /\ disp[c].pc = "job_running"
    /\ allowed_commands = {}
    /\ LET t == get_task(jobs, disp[c].job)
           row == IF t = <<>> THEN disp[c].row[1] ELSE [t[1] EXCEPT !.status = "running"]
       IN /\ jobs' = SetStatus(jobs, disp[c].job, "running")
          /\ disp' = [disp EXCEPT ![c].pc = "executing",
                                  ![c].row = <<row>>,
                                  ![c].trace = Append(@, "job_running")]
          /\ task' = [task EXCEPT ![c] =
                         EnterExecuteWithRetryTabled(
                             [IdleTask EXCEPT !.kind = "retry",
                                              !.loop = IF disp[c].origin = "scheduled"
                                                       THEN ThreadLoop(c) ELSE "main",
                                              !.execution_id = ExecIds[c],
                                              !.arg = row.command,
                                              !.command = row.command,
                                              !.timeout = row.timeout,
                                              !.max_retries = row.max_retries])]
    /\ UNCHANGED <<max_workers, allowed_commands, sem_loop, semaphore, running_tasks, proc,
                   canc, sched, dbVars>>

WakeTabled(c) ==
    /\ task[c].pc = "sleeping"
    /\ allowed_commands = {}
    /\ task' = [task EXCEPT ![c] =
                   EnterExecuteTabled([task[c] EXCEPT !.attempt = @ + 1],
                                      AttemptKey(task[c].execution_id,
                                                 task[c].attempt + 2))]
    /\ UNCHANGED <<max_workers, allowed_commands, sem_loop, semaphore, running_tasks, proc,
                   canc, dispVars, sched, dbVars>>

\* the tabled steps are the steps of JobRunning and Wake
SameSteps ==
    [][\A c \in Callers :
          /\ JobRunning(c) <=> JobRunningTabled(c)
          /\ Wake(c) <=> WakeTabled(c)]_vars

\* a step of a dispatch that has begun, of the engine under it, of a process
\* or of the clock: every step but the arrival of a request
Progress ==
    \/ \E c \in Callers : GateEnter(c)
    \/ \E c \in Callers : GateLoop(c)
    \/ \E c \in Callers : BlockedSetStatus(c)
    \/ \E c \in Callers : BlockedNotify(c)
    \/ \E c \in Callers : NotifyStart(c)
    \/ \E c \in Callers : CreateExecution(c)
    \/ \E c \in Callers : AsyncGetTask(c)
    \/ \E c \in Callers : ExecutionRunning(c)
    \/ \E c \in Callers : JobRunningTabled(c)
    \/ \E c \in Callers : RecordExecution(c)
    \/ \E c \in Callers : ExecuteRaised(c)
    \/ \E c \in Callers : RecordJobStatus(c)
    \/ \E c \in Callers : NotifyFinal(c)
    \/ \E c \in Callers : AcquireSlot(c)
    \/ \E c \in Callers : AcquireBlocks(c)
    \/ \E c \in Callers : AcquireRaises(c)
    \/ \E c \in Callers : WakeUp(c)
    \/ \E c \in Callers : Spawn(c)
    \/ \E c \in Callers : SpawnFails(c)
    \/ \E p \in DOMAIN proc : ProcExit(p)
    \/ \E p \in DOMAIN proc : ProcReaped(p)
    \/ \E c \in Callers : CommunicateReturns(c)
    \/ \E c \in Callers : CommunicateRaises(c)
    \/ \E c \in Callers : Timeout(c)
    \/ \E c \in Callers : WaitReturns(c)
    \/ \E c \in Callers : WakeTabled(c)
    \/ Tick

\* the event loops run a coroutine that can go on, a process that is alive
\* exits or is killed at its timeout, and time passes; requests need not
\* arrive
SpecDispatchFair == SpecDispatch /\ WF_vars(Progress)


(***************************************************************************)
(* Properties of the engine.                                               *)
(***************************************************************************)
\* callers that hold a slot: inside "async with self.semaphore", or handed
\* the slot by a release and about to enter
Holders == {c \in Callers : task[c].pc \in {"granted", "spawn", "waiting", "killwait"}}

\* callers whose execute call has spawned a process and has not returned
InFlight == {c \in Callers : task[c].pc \in {"waiting", "killwait"}}

\* the command the caller passed is one validate_command accepts
ValidArg(c) == validate_command(task[c].arg, allowed_commands).ok

\* a caller that finds no free slot waits: its next step is to go on
\* waiting or to be handed the slot, never to return
BlocksUntilReleased ==
    \A c \in Callers :
        task[c].pc = "acquire" /\ Locked
        => task'[c].pc \in {"acquire", "blocked"}

\* C1: the number of processes that were spawned and whose run call has not
\* returned never exceeds max_workers, and a caller that arrives when no
\* slot is free blocks until one is released (it neither returns nor
\* spawns).
C1_WorkerBound ==
    /\ [](Cardinality(InFlight) <= max_workers)
    /\ [][BlocksUntilReleased]_vars

\* C4: execute_with_retry with max_retries = n >= 1 on a valid command whose
\* attempts all end not completed makes exactly n attempts, sleeps n - 1
\* times (never after the last attempt) and returns the n-th attempt's
\* result with attempt_number = n.
C4_ExhaustsRetries ==
    \A c \in Callers :
        /\ task[c].kind = "retry"
        /\ task[c].pc = "returned"
        /\ ValidArg(c)
        /\ task[c].max_retries >= 1
        /\ task[c].result.status # "completed"
        => /\ task[c].calls = task[c].max_retries
           /\ task[c].sleeps = task[c].max_retries - 1
           /\ task[c].attempt = task[c].max_retries - 1
           /\ task[c].result.attempt_number = task[c].max_retries
           /\ task[c].result.status \in {"failed", "timeout"}

\* a retry sequence of MaxRetries attempts that all failed has returned
C4_Witness ==
    \E c \in Callers :
        /\ task[c].kind = "retry"
        /\ task[c].pc = "returned"
        /\ task[c].max_retries = MaxRetries
        /\ task[c].calls = MaxRetries
        /\ task[c].spawned = MaxRetries
        /\ task[c].result.status = "timeout"

\* C5: execute_with_retry returns at the first attempt that ends completed:
\* the result carries that attempt's number, no further attempt is started
\* and no sleep follows it.
C5_StopsAtFirstSuccess ==
    \A c \in Callers :
        task[c].kind = "retry" /\ task[c].result.status = "completed"
        => /\ task[c].pc = "returned"
           /\ task[c].result.attempt_number = task[c].calls
           /\ task[c].calls = task[c].attempt + 1
           /\ task[c].sleeps = task[c].calls - 1

\* a retry sequence returned at a completed attempt with retries left
C5_Witness ==
    \E c \in Callers :
        /\ task[c].kind = "retry"
        /\ task[c].pc = "returned"
        /\ task[c].result.status = "completed"
        /\ task[c].result.attempt_number < task[c].max_retries

\* C6: the process table holds only processes of execute calls that have
\* not returned, and the free slots are those not held by such calls; so
\* when no call is in progress the table is empty and every slot is free.
C6_CleanupOnEveryExit ==
    /\ \A k \in DOMAIN running_tasks :
          \E c \in InFlight : task[c].cur_id = k
    /\ semaphore = max_workers - Cardinality(Holders)
    /\ Holders = {} => running_tasks = <<>> /\ semaphore = max_workers

\* both callers have returned, one by the timeout path and one by the outer
\* except, and nothing is left behind
C6_Witness ==
    /\ \A c \in Callers : task[c].pc = "returned"
    /\ \E c \in Callers : task[c].result.status = "timeout"
    /\ \E c \in Callers : task[c].result.error.kind = "str(e)"
    /\ running_tasks = <<>>

\* C7: a caller in its retry sleep holds no slot: the free slots and the
\* slots of the callers inside an attempt add up to max_workers, so with
\* every other caller outside an attempt all slots are free.
C7_NoSlotDuringSleep ==
    \A c \in Callers :
        task[c].pc = "sleeping"
        => /\ c \notin Holders
           /\ semaphore + Cardinality(Holders \ {c}) = max_workers

\* with one worker, another caller's run holds the slot while the first
\* caller sleeps between two attempts
C7_Witness ==
    \E c, d \in Callers :
        /\ max_workers = 1
        /\ task[c].pc = "sleeping"
        /\ task[d].kind = "run"
        /\ task[d].pc = "waiting"
        /\ proc[Pid(d)].state = "exited"

\* C8: a call with a command validate_command rejects has returned
\* status=failed at once: it never waits for a slot, spawns nothing, and in
\* execute_with_retry makes no attempt and no sleep, whatever max_retries.
C8_RejectedCommand ==
    \A c \in Callers :
        task[c].pc # "idle" /\ ~ValidArg(c)
        => /\ task[c].pc = "returned"
           /\ task[c].result.status = "failed"
           /\ task[c].result.error.kind = "Command validation failed"
           /\ task[c].spawned = 0
           /\ task[c].sleeps = 0
           /\ task[c].kind = "retry" => task[c].calls = 0

\* execute_with_retry was called with a rejected command and max_retries > 1
C8_Witness ==
    \E c \in Callers :
        /\ task[c].kind = "retry"
        /\ task[c].pc = "returned"
        /\ ~ValidArg(c)
        /\ task[c].max_retries = MaxRetries

\* C9: on the timeout path the process is killed first and the slot is
\* released only after its teardown: a process whose wait timed out and
\* that is not gone yet belongs to a caller that still holds its slot (and
\* is still tracked unless the key was taken over).
C9_KillBeforeRelease ==
    /\ \A c \in Callers :
          task[c].pc = "killwait" => proc[Pid(c)].state # "alive"
    /\ \A p \in DOMAIN proc :
          proc[p].timed_out /\ ~IsDead(p)
          => \E c \in Holders : task[c].pc = "killwait" /\ Pid(c) = p

\* a timed-out process was sent SIGKILL and is not gone yet
C9_Witness ==
    \E c \in Callers :
        /\ task[c].pc = "killwait"
        /\ proc[Pid(c)].timed_out
        /\ proc[Pid(c)].state = "killing"
        /\ semaphore = 0

\* the result was built on the timeout path or the normal path
\* with the timeout the call was given
ResultShape(r, timeout) ==
    /\ r.return_code = <<0>> => r.status = "completed" /\ r.error = Msg(None, 0)
    /\ r.status = "completed" => r.return_code = <<0>>
    /\ \A n \in (ReturnCodes \cup {SIGKILLCode}) \ {0} :
          r.return_code = <<n>> => r.status = "failed" /\ r.error = Msg("Exit code", n)
    /\ r.status = "timeout"
          => /\ r.return_code = <<>>
             /\ r.stdout = <<>>
             /\ r.stderr = <<>>
             /\ r.duration >= timeout

\* C10: the result of execute follows the outcome of the process: exit code
\* 0 gives completed without error, exit code N # 0 gives failed with
\* return_code N and error "Exit code: N", a timeout gives status timeout
\* without return code and output and with duration >= timeout.
C10_ResultFollowsOutcome ==
    /\ \A c \in Callers :
          task[c].result.status # None
          => ResultShape(task[c].result, task[c].timeout)
    /\ \A c \in Callers :
          /\ task[c].pc = "waiting" /\ IsDead(Pid(c))
             => LET r == CompletedResult(proc[Pid(c)].returncode, proc[Pid(c)].out,
                                         Duration(task[c].elapsed))
                IN /\ r.return_code = <<proc[Pid(c)].returncode>>
                   /\ ResultShape(r, task[c].timeout)
          /\ task[c].pc = "killwait"
             => LET r == TimeoutResult(task[c].timeout, Duration(task[c].elapsed))
                IN ResultShape(r, task[c].timeout) /\ r.status = "timeout"

\* one call returned timeout and another failed with exit code 1
C10_Witness ==
    \E c, d \in Callers :
        /\ task[c].pc = "returned"
        /\ task[c].result.status = "timeout"
        /\ task[c].result.duration >= 1
        /\ task[d].pc = "returned"
        /\ task[d].result.return_code = <<1>>


(***************************************************************************)
(* Properties of the dispatch paths and of the dependency gate.            *)
(***************************************************************************)
\* the dispatch of caller c has started the execution of its job: the job
\* was moved to running, or the engine was called
Attempted(c) ==
    \/ \E i \in DOMAIN disp[c].trace : disp[c].trace[i] = "job_running"
    \/ task[c].pc # "idle"

\* C2: on every dispatch path (scheduled trigger, manual run, webhook run)
\* the execution of a job is attempted only after check_dependencies was
\* called for it and returned satisfied.
C2_GateOnEveryPath ==
    \A c \in Callers :
        disp[c].origin \in {"scheduled", "manual", "webhook"} /\ Attempted(c)
        => disp[c].gate.pc = "done" /\ disp[c].gate.ok

\* the text of the dependency is a UUID
WellFormed(d) == d.form \in {"canon", "braced"}

\* the dependency is well-formed and refers to an existing, active job whose
\* status is completed
DepOk(store, d) ==
    /\ WellFormed(d)
    /\ d.id \in DOMAIN store
    /\ store[d.id].is_active
    /\ store[d.id].status = "completed"

\* the dependency refers to an existing job whose status is not completed
DepNotCompleted(store, d) ==
    /\ WellFormed(d)
    /\ d.id \in DOMAIN store
    /\ store[d.id].status # "completed"

\* the reason names the job the dependency refers to, and its status
NamesWithStatus(store, r, d) ==
    r = <<[kind |-> "not completed", who |-> store[d.id].name,
           status |-> store[d.id].status]>>

\* check_dependencies has returned to caller c for an existing job
Checked(c) ==
    /\ disp[c].origin = "diagnostic"
    /\ disp[c].gate.pc = "done"
    /\ disp[c].job \in DOMAIN jobs

\* the index of the first dependency of the list that is not DepOk
FirstBlocking(store, deps) ==
    CHOOSE k \in 1..Len(deps) :
        /\ ~DepOk(store, deps[k])
        /\ \A i \in 1..(k - 1) : DepOk(store, deps[i])

\* the result is satisfied iff the job has no dependencies or all are DepOk
SatisfiedIff(c) ==
    LET deps == jobs[disp[c].job].dependencies IN
    disp[c].gate.ok <=> \A i \in 1..Len(deps) : DepOk(jobs, deps[i])

\* C3 as stated: satisfied iff every dependency is well-formed, exists, is
\* active and completed, and any dependency whose status is not completed
\* makes the check fail with a reason naming that dependency and its status.
C3_AnyIncompleteNamed ==
    \A c \in Callers :
        Checked(c)
        => LET deps == jobs[disp[c].job].dependencies IN
           /\ SatisfiedIff(c)
           /\ \A i \in 1..Len(deps) :
                 DepNotCompleted(jobs, deps[i])
                 => /\ ~disp[c].gate.ok
                    /\ NamesWithStatus(jobs, disp[c].gate.reason, deps[i])

\* C3, amended: satisfied iff every dependency is well-formed, exists, is
\* active and completed; when the check fails the reason is about the first
\* dependency of the list that blocks, and names it with its status when
\* that dependency is an active job whose status is not completed.
C3_FirstBlockingNamed ==
    \A c \in Callers :
        Checked(c)
        => LET deps == jobs[disp[c].job].dependencies IN
           /\ SatisfiedIff(c)
           /\ disp[c].gate.ok => disp[c].gate.reason = <<>>
           /\ ~disp[c].gate.ok
              => LET d == deps[FirstBlocking(jobs, deps)] IN
                 /\ Len(disp[c].gate.reason) = 1
                 /\ disp[c].gate.i = FirstBlocking(jobs, deps)
                 /\ DepNotCompleted(jobs, d) /\ jobs[d.id].is_active
                    => NamesWithStatus(jobs, disp[c].gate.reason, d)
                 /\ DepNotCompleted(jobs, d) /\ ~jobs[d.id].is_active
                    => disp[c].gate.reason[1].kind = "is disabled"

\* the check failed at the second dependency of a list whose first one
\* passes, with a reason naming it and its status
C3_Witness ==
    \E c \in Callers :
        /\ Checked(c)
        /\ ~disp[c].gate.ok
        /\ disp[c].gate.i = 2
        /\ disp[c].gate.reason[1].kind = "not completed"
        /\ disp[c].gate.reason[1].status = "pending"


(***************************************************************************)
(* Edits of a job's schedule: one PUT request after the other on a store   *)
(* that holds j1, registered at startup.                                   *)
(***************************************************************************)
NextEdit ==
    \/ \E id \in SchedIds, task_data \in TaskUpdates, authorized \in BOOLEAN :
          EditStart(id, task_data, authorized)
    \/ EditCommit
    \/ EditSync

InitEdit ==
    /\ InitExec
    /\ jobs = Store(<<>>, TRUE, "pending")
    /\ disp = [c \in Callers |-> IdleDisp]
    /\ \E d \in {Descriptor("interval", <<"1", "s">>, "UTC"),
                 Descriptor("cron", <<"*", "/", "2">>, "UTC")} :
          /\ schedules = [j \in {"j1"} |-> d]
          /\ sched = Added(IdleSched, "j1", d.schedule_type, d.schedule, d.timezone)
    /\ call = NoCall
    /\ edit = IdleEdit
    /\ InitRows

SpecEdit == InitEdit /\ [][NextEdit]_vars

(***************************************************************************)
(* add_task called with interval expressions (create_task, tasks.py        *)
(* 38-46; load_scheduled_tasks, main.py 169-174).                          *)
(***************************************************************************)
\* interval expressions have at most MaxLen characters
MaxLen == 3

\* the characters of the interval expressions callers pass
IntervalChars == {"0", "2", "s", "m", "h", "d", "D", "x", "-", " ", "_"}

RECURSIVE Texts(_)
Texts(n) ==
    IF n = 0 THEN {<<>>}
    ELSE Texts(n - 1) \cup {Append(t, c) : t \in Texts(n - 1), c \in IntervalChars}

\* add_task(id, ScheduleType.INTERVAL, schedule, "UTC")
AddedInterval(sc, id, schedule) == Added(sc, id, "interval", schedule, "UTC")

AddInterval(id, schedule) ==
    /\ sched.up
    /\ sched' = AddedInterval(sched, id, schedule)
    /\ call' = [id |-> id, schedule |-> <<schedule>>,
                raised |-> _create_trigger("interval", schedule, "UTC", sched.now) = <<>>]
    /\ UNCHANGED <<execVars, dispVars, schedules, edit, notifVars, executions>>

NextInterval == \E schedule \in Texts(MaxLen) : AddInterval("j1", schedule)

InitInterval ==
    /\ InitExec
    /\ jobs = Store(<<>>, TRUE, "pending")
    /\ disp = [c \in Callers |-> IdleDisp]
    /\ sched = IdleSched
    /\ InitDb

SpecInterval == InitInterval /\ [][NextInterval]_vars

(***************************************************************************)
(* The notification service on its own: one call of notify_task_event on   *)
(* a table of two NotificationConfig rows.                                 *)
(***************************************************************************)
NextNotify ==
    \/ \E e \in EventTypes, t \in {None, "j1"} : NotifyTaskEvent("u1", e, t)
    \/ NotifySelect
    \/ CreateLog
    \/ UnknownChannel
    \/ \E success \in BOOLEAN : ProviderReturns(success)

InitNotify ==
    /\ InitExec
    /\ jobs = Store(<<>>, TRUE, "pending")
    /\ disp = [c \in Callers |-> IdleDisp]
    /\ sched = IdleSched
    /\ schedules = EmptyFn
    /\ call = NoCall
    /\ edit = IdleEdit
    /\ configs \in {<<a, b>> : a \in ConfigRows(1), b \in ConfigRows(2)}
    /\ logs = <<>>
    /\ notif = IdleNotif
    /\ executions = <<>>

SpecNotify == InitNotify /\ [][NextNotify]_vars

(***************************************************************************)
(* The TaskExecution rows on their own: any calls of create_execution and  *)
(* update_execution.                                                       *)
(***************************************************************************)
NextExecutions ==
    \/ \E task_id \in JobIds, status \in TaskExecutionStatuses :
          CreateExecutionRow(task_id, status)
    \/ \E id \in 1..MaxRows, status \in TaskExecutionStatuses :
          UpdateExecutionRow(id, status)

InitExecutions ==
    /\ InitExec
    /\ jobs = Store(<<>>, TRUE, "pending")
    /\ disp = [c \in Callers |-> IdleDisp]
    /\ sched = IdleSched
    /\ InitDb

SpecExecutions == InitExecutions /\ [][NextExecutions]_vars

(***************************************************************************)
(* The Task rows on their own: any calls of create_task, update_task and   *)
(* delete_task. uuid4 gives a new job an identity no row has. At the start *)
(* the store holds job j1, without dependencies, and the row of one        *)
(* execution of it.                                                        *)
(***************************************************************************)
NextRegistry ==
    \/ \E id \in JobIds, dependencies \in DepLists : CreateTask(id, dependencies)
    \/ \E id \in JobIds, task_data \in DependencyUpdates : UpdateTask(id, task_data)
    \/ \E id \in JobIds : DeleteTask(id)

InitRegistry ==
    /\ InitExec
    /\ jobs = [j \in {"j1"} |-> Job("n1", TRUE, "pending", <<>>, cmdOk, MaxRetries)]
    /\ disp = [c \in Callers |-> IdleDisp]
    /\ sched = IdleSched
    /\ schedules = EmptyFn
    /\ call = NoCall
    /\ edit = IdleEdit
    /\ configs = <<>>
    /\ logs = <<>>
    /\ notif = IdleNotif
    /\ executions = <<ExecutionUpdated(TaskExecution("j1", "pending"), "completed")>>

SpecRegistry == InitRegistry /\ [][NextRegistry]_vars

(***************************************************************************)
(* validate_command on its own: an engine with an allowlist is handed      *)
(* commands by execute_with_retry with max_retries = 0, which validates    *)
(* the command and returns without an attempt.                             *)
(***************************************************************************)
CommandChars == {"l", "s", "c", "'", " "}

RECURSIVE CommandTexts(_)
CommandTexts(n) ==
    IF n = 0 THEN {<<>>}
    ELSE CommandTexts(n - 1)
             \cup {Append(t, c) : t \in CommandTexts(n - 1), c \in CommandChars}

\* TaskExecutor(allowed_commands=["ls"])
InitValidate ==
    /\ max_workers = 1
    /\ allowed_commands = {<<"l", "s">>}
    /\ semaphore = max_workers
    /\ sem_loop = None
    /\ running_tasks = <<>>
    /\ proc = <<>>
    /\ task = [c \in Callers |-> IdleTask]
    /\ canc = IdleCanc
    /\ jobs = Store(<<>>, TRUE, "pending")
    /\ disp = [c \in Callers |-> IdleDisp]
    /\ sched = IdleSched
    /\ InitDb

\* execute_with_retry(key, command, timeout, max_retries=0)
ValidateCall(c, command) ==
    /\ task[c].pc = "idle"
    /\ task' = [task EXCEPT ![c] =
                   EnterExecuteWithRetry([IdleTask EXCEPT !.kind = "retry",
                                                          !.loop = "main",
                                                          !.execution_id = "e1",
                                                          !.arg = command,
                                                          !.command = command,
                                                          !.timeout = 1,
                                                          !.max_retries = 0])]
    /\ UNCHANGED <<max_workers, allowed_commands, sem_loop, semaphore, running_tasks, proc,
                   canc, dispVars, sched, dbVars>>

NextValidate == \E c \in Callers, command \in CommandTexts(MaxLen) : ValidateCall(c, command)

SpecValidate == InitValidate /\ [][NextValidate]_vars

(***************************************************************************)
(* The capture of output on its own: calls of execute whose processes end  *)
(* by themselves with output around the limit.                             *)
(***************************************************************************)
\* what a pipe can hold at the end: nothing, a little, ASCII text of the
\* limit and one character more, and text of two-byte characters of half
\* the limit plus one, of the limit, and one more
Streams ==
    {Capture(0, 0), Capture(2, 2)}
        \cup {Capture(n, n) : n \in {MaxLength, MaxLength + 1}}
        \cup {Capture(2 * n, n) : n \in {MaxLength \div 2 + 1, MaxLength, MaxLength + 1}}

\* a process ends by itself, with an exit code and its output
ProcExitCaptured(p) ==
    /\ p \in DOMAIN proc
    /\ proc[p].state = "alive"
    /\ \E rc \in ReturnCodes, so \in Streams, se \in Streams :
          proc' = Collect([proc EXCEPT ![p].state = "exited",
                                       ![p].returncode = rc,
                                       ![p].out = <<so, se>>],
                          running_tasks, task, canc)
    /\ UNCHANGED <<max_workers, allowed_commands, sem_loop, semaphore, running_tasks, task,
                   canc, dispVars, sched, dbVars>>

NextOutput ==
    \/ \E c \in Callers : CallRun(c)
    \/ \E c \in Callers : AcquireSlot(c)
    \/ \E c \in Callers : Spawn(c)
    \/ \E p \in DOMAIN proc : ProcExitCaptured(p)
    \/ \E c \in Callers : CommunicateReturns(c)

SpecOutput == Init /\ [][NextOutput]_vars

(***************************************************************************)
(* The dispatch paths with a job that has max_retries = 0: j1, which       *)
(* depends on j2; j2 has a valid command and two attempts.                 *)
(***************************************************************************)
InitZeroRetries ==
    /\ InitExec
    /\ jobs \in {[j \in JobIds |->
                     IF j = "j1"
                     THEN Job("n1", TRUE, "pending", <<Dep("canon", "j2")>>, cmdOk, 0)
                     ELSE Job("n2", TRUE, st, <<>>, cmdOk, MaxRetries)] :
                 st \in {"pending", "completed"}}
    /\ disp = [c \in Callers |-> IdleDisp]
    /\ sched = IdleSched
    /\ schedules = EmptyFn
    /\ call = NoCall
    /\ edit = IdleEdit
    /\ configs = OwnerConfigs
    /\ logs = <<>>
    /\ notif = IdleNotif
    /\ executions = <<>>

SpecZeroRetries == InitZeroRetries /\ [][NextDispatch]_vars

(***************************************************************************)
(* POST /tasks/{task_id}/pause and /resume (api/routes/tasks.py 288-343)   *)
(* called while the dispatch paths run.  Job j1, whose command is          *)
(* rejected, depends on j2, which has completed.  Both have one attempt:   *)
(* no attempt follows a sleep, and no attempt finds the semaphore bound to *)
(* another loop.                                                           *)
(***************************************************************************)
\* faulty variant of pause_task: a completed job keeps its status
pause_task_KeepsCompleted(id, user) ==
    /\ sched.ops < MaxOps
    /\ IF id \in DOMAIN jobs /\ user = Owner
       THEN /\ sched' = Called(Paused(sched, id), "pause", id, FALSE)
            /\ jobs' = IF jobs[id].status = "completed" THEN jobs
                       ELSE SetStatus(jobs, id, "pending")
       ELSE UNCHANGED <<sched, jobs>>
    /\ UNCHANGED <<execVars, disp, dbVars>>

\* pause_task: 404 without the job, 403 for a user who is not its owner;
\* else the scheduler's pause_task and update_task_status(PENDING)
pause_task(id, user) ==
    /\ sched.ops < MaxOps
    /\ IF id \in DOMAIN jobs /\ user = Owner
       THEN /\ sched' = Called(Paused(sched, id), "pause", id, FALSE)
            /\ jobs' = SetStatus(jobs, id, "pending")
       ELSE UNCHANGED <<sched, jobs>>
    /\ UNCHANGED <<execVars, disp, dbVars>>

\* resume_task: the same with the scheduler's resume_task and
\* update_task_status(RUNNING)
resume_task(id, user) ==
    /\ sched.ops < MaxOps
    /\ IF id \in DOMAIN jobs /\ user = Owner
       THEN /\ sched' = Called(Resumed(sched, id), "resume", id, FALSE)
            /\ jobs' = SetStatus(jobs, id, "running")
       ELSE UNCHANGED <<sched, jobs>>
    /\ UNCHANGED <<execVars, disp, dbVars>>

InitPause ==
    /\ InitExec
    /\ jobs = [j \in JobIds |->
                  IF j = "j1"
                  THEN Job("n1", TRUE, "pending", <<Dep("canon", "j2")>>, cmdChainedRm, 1)
                  ELSE Job("n2", TRUE, "completed", <<>>, cmdOk, 1)]
    /\ disp = [c \in Callers |-> IdleDisp]
    /\ sched = IdleSched
    /\ schedules = EmptyFn
    /\ call = NoCall
    /\ edit = IdleEdit
    /\ configs = OwnerConfigs
    /\ logs = <<>>
    /\ notif = IdleNotif
    /\ executions = <<>>

NextPause ==
    \/ \E id \in JobIds \cup {"j3"}, user \in Users : pause_task(id, user)
    \/ \E id \in JobIds \cup {"j3"}, user \in Users : resume_task(id, user)
    \/ \E c \in Callers : StartScheduled(c)
    \/ \E c \in Callers : StartManual(c)
    \/ \E c \in Callers : StartWebhook(c)
    \/ \E c \in Callers : GateEnter(c)
    \/ \E c \in Callers : GateLoop(c)
    \/ \E c \in Callers : BlockedSetStatus(c)
    \/ \E c \in Callers : BlockedNotify(c)
    \/ \E c \in Callers : NotifyStart(c)
    \/ \E c \in Callers : CreateExecution(c)
    \/ \E c \in Callers : AsyncGetTask(c)
    \/ \E c \in Callers : ExecutionRunning(c)
    \/ \E c \in Callers : JobRunning(c)
    \/ \E c \in Callers : RecordExecution(c)
    \/ \E c \in Callers : RecordJobStatus(c)
    \/ \E c \in Callers : NotifyFinal(c)
    \/ \E c \in Callers : AcquireSlot(c)
    \/ \E c \in Callers : AcquireBlocks(c)
    \/ \E c \in Callers : WakeUp(c)
    \/ \E c \in Callers : Spawn(c)
    \/ \E c \in Callers : SpawnFails(c)
    \/ \E p \in DOMAIN proc : ProcExit(p)
    \/ \E p \in DOMAIN proc : ProcReaped(p)
    \/ \E c \in Callers : CommunicateReturns(c)
    \/ \E c \in Callers : CommunicateRaises(c)
    \/ \E c \in Callers : Timeout(c)
    \/ \E c \in Callers : WaitReturns(c)
    \/ Tick

SpecPause == InitPause /\ [][NextPause]_vars

(***************************************************************************)
(* The scheduled and manual dispatch paths over stores with a dependency   *)
(* cycle: j1 lists itself next to a free j2, or j1 and j2 list each other.  *)
(* No job on a cycle is completed.                                         *)
(***************************************************************************)
InitCycle ==
    /\ InitExec
    /\ jobs \in
          {[j \in JobIds |->
               IF j = "j1"
               THEN Job("n1", TRUE, st, <<Dep("canon", "j1")>>, cmdOk, 1)
               ELSE Job("n2", TRUE, "pending", <<>>, cmdOk, MaxRetries)] :
           st \in Statuses \ {"completed"}}
          \cup
          {[j \in JobIds |->
               IF j = "j1"
               THEN Job("n1", TRUE, st1, <<Dep("canon", "j2")>>, cmdOk, 1)
               ELSE Job("n2", TRUE, st2, <<Dep("braced", "j1")>>, cmdOk, 1)] :
           st1 \in {"pending", "failed"}, st2 \in Statuses \ {"completed"}}
    /\ disp = [c \in Callers |-> IdleDisp]
    /\ sched = IdleSched
    /\ schedules = EmptyFn
    /\ call = NoCall
    /\ edit = IdleEdit
    /\ configs = OwnerConfigs
    /\ logs = <<>>
    /\ notif = IdleNotif
    /\ executions = <<>>

NextCycle ==
    \/ \E c \in Callers : StartScheduled(c)
    \/ \E c \in Callers : StartManual(c)
    \/ \E c \in Callers : GateEnter(c)
    \/ \E c \in Callers : GateLoop(c)
    \/ \E c \in Callers : BlockedSetStatus(c)
    \/ \E c \in Callers : BlockedNotify(c)
    \/ \E c \in Callers : NotifyStart(c)
    \/ \E c \in Callers : CreateExecution(c)
    \/ \E c \in Callers : AsyncGetTask(c)
    \/ \E c \in Callers : ExecutionRunning(c)
    \/ \E c \in Callers : JobRunning(c)
    \/ \E c \in Callers : RecordExecution(c)
    \/ \E c \in Callers : ExecuteRaised(c)
    \/ \E c \in Callers : RecordJobStatus(c)
    \/ \E c \in Callers : NotifyFinal(c)
    \/ \E c \in Callers : AcquireSlot(c)
    \/ \E c \in Callers : AcquireBlocks(c)
    \/ \E c \in Callers : AcquireRaises(c)
    \/ \E c \in Callers : WakeUp(c)
    \/ \E c \in Callers : Spawn(c)
    \/ \E c \in Callers : SpawnFails(c)
    \/ \E p \in DOMAIN proc : ProcExit(p)
    \/ \E p \in DOMAIN proc : ProcReaped(p)
    \/ \E c \in Callers : CommunicateReturns(c)
    \/ \E c \in Callers : CommunicateRaises(c)
    \/ \E c \in Callers : Timeout(c)
    \/ \E c \in Callers : WaitReturns(c)
    \/ \E c \in Callers : Wake(c)
    \/ Tick

SpecCycle == InitCycle /\ [][NextCycle]_vars

(***************************************************************************)
(* PUT /tasks/{task_id} with a body that sets is_active                    *)
(* (api/routes/tasks.py 103-144), called while the scheduled dispatch      *)
(* path runs.  Job j1 is registered in the scheduler and depends on j2.    *)
(***************************************************************************)
\* the bodies: is_active set, the schedule fields unset
ActiveUpdates ==
    [schedule_type : {<<>>}, schedule : {<<>>}, timezone : {<<>>},
     is_active : {<<TRUE>>, <<FALSE>>}]

\* update_task: 404 without the job, 403 for a user who is not its owner;
\* else the row is changed and the scheduler updated if the body sets a
\* schedule field
update_task(id, task_data, authorized) ==
    /\ IF id \in DOMAIN jobs /\ authorized
       THEN /\ jobs' = [jobs EXCEPT ![id].is_active = task_data.is_active[1]]
            /\ sched' = Rescheduled(sched, id, task_data, <<>>).sc
       ELSE UNCHANGED <<sched, jobs>>
    /\ UNCHANGED <<execVars, disp, dbVars>>

InitActive ==
    /\ InitExec
    /\ jobs = Store(<<Dep("canon", "j2")>>, TRUE, "completed")
    /\ disp = [c \in Callers |-> IdleDisp]
    /\ sched = Added(IdleSched, "j1", "interval", <<"1", "s">>, "UTC")
    /\ schedules = EmptyFn
    /\ call = NoCall
    /\ edit = IdleEdit
    /\ configs = OwnerConfigs
    /\ logs = <<>>
    /\ notif = IdleNotif
    /\ executions = <<>>

NextActive ==
    \/ \E id \in JobIds \cup {"j3"}, task_data \in ActiveUpdates, authorized \in BOOLEAN :
          update_task(id, task_data, authorized)
    \/ \E c \in Callers : StartScheduled(c)
    \/ \E c \in Callers : GateEnter(c)
    \/ \E c \in Callers : GateLoop(c)
    \/ \E c \in Callers : BlockedSetStatus(c)
    \/ \E c \in Callers : BlockedNotify(c)
    \/ \E c \in Callers : NotifyStart(c)
    \/ \E c \in Callers : CreateExecution(c)
    \/ \E c \in Callers : ExecutionRunning(c)
    \/ \E c \in Callers : JobRunning(c)
    \/ \E c \in Callers : RecordExecution(c)
    \/ \E c \in Callers : RecordJobStatus(c)
    \/ \E c \in Callers : NotifyFinal(c)
    \/ \E c \in Callers : AcquireSlot(c)
    \/ \E c \in Callers : Spawn(c)
    \/ \E c \in Callers : SpawnFails(c)
    \/ \E p \in DOMAIN proc : ProcExit(p)
    \/ \E p \in DOMAIN proc : ProcReaped(p)
    \/ \E c \in Callers : CommunicateReturns(c)
    \/ \E c \in Callers : CommunicateRaises(c)
    \/ \E c \in Callers : Timeout(c)
    \/ \E c \in Callers : WaitReturns(c)
    \/ \E c \in Callers : Wake(c)
    \/ Tick

SpecActive == InitActive /\ [][NextActive]_vars

(***************************************************************************)
(* The scheduler on its own: calls of its API, the clock, the wakeups and  *)
(* the threads of the pool.                                                *)
(***************************************************************************)
NextSched ==
    \/ \E id \in SchedIds, s \in Schedules : AddTask(id, s[1], s[2], s[3])
    \/ \E id \in SchedIds : RemoveTask(id)
    \/ \E id \in SchedIds : PauseTask(id)
    \/ \E id \in SchedIds : ResumeTask(id)
    \/ ProcessJobs
    \/ \E i \in DOMAIN sched.threads : RunNext(i)
    \/ \E i \in DOMAIN sched.threads : CallbackReturns(i)
    \/ \E i \in DOMAIN sched.threads : JobDone(i)
    \/ TickSched
    \/ Stall
    \/ Unstall

\* after startup: load_scheduled_tasks has added the active jobs of the store
\* (main.py 152-181), here j1 with the schedule "1s"
InitSched ==
    /\ InitExec
    /\ max_workers = 1
    /\ jobs = Store(<<>>, TRUE, "pending")
    /\ disp = [c \in Callers |-> IdleDisp]
    /\ sched \in {Added([IdleSched EXCEPT !.max_workers = n], "j1", "interval", <<"1", "s">>,
                          "UTC") :
                    n \in 1..SchedulerMaxWorkers}
    /\ InitDb

SpecSched == InitSched /\ [][NextSched]_vars

(***************************************************************************)
(* Properties of cancel.                                                   *)
(***************************************************************************)
\* this step is a call of cancel
CancelCalled == canc.pc = "idle" /\ canc' # canc

\* this step is the return of a cancel that waited for the process
CancelReturned == canc.pc = "wait" /\ canc'.pc = "idle"

\* a call of cancel(key): with key tracked the tracked process is sent
\* SIGKILL unless it has ended and cancel waits for it; with key not tracked
\* the call returns False at once and changes nothing
CancelCallStep ==
    CancelCalled
    => IF canc'.key \in DOMAIN running_tasks
       THEN /\ canc'.pc = "wait"
            /\ canc'.pid = running_tasks[canc'.key]
            /\ proc'[canc'.pid].state # "alive"
            /\ UNCHANGED <<running_tasks, semaphore, task>>
       ELSE /\ canc'.pc = "idle"
            /\ canc'.ret = "False"
            /\ UNCHANGED <<running_tasks, proc, semaphore, task>>

\* the return of a cancel that found key tracked: True, the process has
\* ended and key is not tracked
CancelReturnStep ==
    CancelReturned
    => /\ canc'.ret = "True"
       /\ IsDead(canc.pid)
       /\ canc.key \notin DOMAIN running_tasks'
       /\ UNCHANGED <<semaphore, task>>

\* cancel(key) called again after a cancel(key) that returned True, key not
\* having been tracked anew: False, and nothing changes
CancelAgainStep ==
    /\ CancelCalled
    /\ canc.ret = "True"
    /\ canc'.key = canc.key
    /\ canc.key \notin DOMAIN running_tasks
    => /\ canc'.ret = "False"
       /\ canc'.pc = "idle"
       /\ UNCHANGED <<running_tasks, proc, semaphore, task>>

\* C11: cancel(key) returns True exactly when key is tracked at the call, and
\* then the process is killed and key untracked; otherwise it returns False
\* and changes nothing; a second cancel(key) after a successful one returns
\* False and has no effect.
C11_CancelContract ==
    /\ [][CancelCallStep]_vars
    /\ [][CancelReturnStep]_vars
    /\ [][CancelAgainStep]_vars
    /\ [](canc.pc = "idle" /\ canc # IdleCanc => canc.ret \in {"True", "False"})
    /\ [](canc.pc = "idle" /\ canc.ret = "True" /\ canc.pid \in DOMAIN proc
            => IsDead(canc.pid))

\* a second cancel(key) has returned False, right after one that returned True
C11_Witness ==
    /\ canc.pc = "idle"
    /\ canc.again
    /\ canc.ret = "False"
    /\ canc.key \notin DOMAIN running_tasks

\* the callers of execute whose process the last cancel was about
CancelledRuns ==
    {c \in Callers : task[c].kind = "run" /\ task[c].spawned > 0 /\ canc.pid = Pid(c)}

\* C12: when cancel(key) meets the timeout path of the run of key, neither
\* call raises, the process ends, the run returns the timeout result, the
\* key is left untracked by both and the slot is given back once.
C12_CancelMeetsTimeout ==
    /\ semaphore = max_workers - Cardinality(Holders)
    /\ \A c \in CancelledRuns :
          /\ task[c].pc \in {"waiting", "killwait", "returned"}
          /\ task[c].pc = "killwait" => proc[Pid(c)].state # "alive"
          /\ task[c].pc = "returned"
             => /\ ResultShape(task[c].result, task[c].timeout)
                /\ task[c].result.status \in {"completed", "failed", "timeout"}
                /\ task[c].result.status = "timeout"
                   => task[c].result = TimeoutResult(task[c].timeout,
                                                     task[c].result.duration)
                /\ canc.late => task[c].result.status = "timeout"
          /\ task[c].pc = "returned" /\ canc.pc = "idle"
             => /\ canc.ret = "True"
                /\ \A k \in DOMAIN running_tasks : running_tasks[k] # Pid(c)
                /\ Pid(c) \in DOMAIN proc => IsDead(Pid(c))

\* cancel was called while the run was on its timeout path, and both have
\* returned
C12_Witness ==
    \E c \in CancelledRuns :
        /\ canc.late
        /\ canc.pc = "idle"
        /\ canc.ret = "True"
        /\ task[c].pc = "returned"
        /\ task[c].result.status = "timeout"
        /\ semaphore = max_workers

(***************************************************************************)
(* Failures of an execution are results.                                   *)
(***************************************************************************)
\* execute has passed the semaphore and has not returned
Executing(c) == task[c].pc \in {"spawn", "waiting", "killwait"}

\* the step in which the execute call of c returns or raises
ExecuteEnds(c) == Executing(c) /\ ~Executing(c)'

\* the result of an attempt that failed: status failed or timeout, with an
\* error text
FailureResult(r) ==
    /\ r.status \in {"failed", "timeout"}
    /\ r.error # Msg(None, 0)
    /\ r.error.kind \in {"Exit code", "Task timed out after", "str(e)"}

\* an execute call that began to run the command ends by returning a
\* result, which is completed or a failure result; in execute_with_retry a
\* failure result with attempts left is followed by the sleep and the next
\* attempt, and by nothing else
FailureStep ==
    \A c \in Callers :
        /\ ExecuteEnds(c)
           => /\ task'[c].pc \in {"returned", "sleeping"}
              /\ task'[c].result.status # "completed" => FailureResult(task'[c].result)
              /\ task[c].kind = "retry"
                 /\ task'[c].result.status # "completed"
                 /\ task[c].attempt + 1 < task[c].max_retries
                 => task'[c].pc = "sleeping"
              /\ task[c].kind = "run" => task'[c].pc = "returned"
        /\ task[c].pc = "sleeping" /\ task'[c] # task[c]
           => /\ task'[c].pc \in {"acquire"}
              /\ task'[c].attempt = task[c].attempt + 1
              /\ task'[c].calls = task[c].calls + 1
              /\ task[c].attempt + 1 < task[c].max_retries

At(c, e) == {i \in 1..Len(disp[c].trace) : disp[c].trace[i] = e}

\* the positions of the notifications that end a dispatch
Terminal(c) == At(c, "notify_success") \cup At(c, "notify_failure")

\* every e comes before every f in the trace of c
Before(c, e, f) == \A i \in At(c, e), k \in At(c, f) : i < k

\* C14: a scheduled dispatch that passed the gate notifies "start" after the
\* gate and before execute_with_retry is called, ends with exactly one
\* notification, "success" if the final status is completed and "failure"
\* otherwise, and no process is spawned before the start notification or
\* after the final one.
C14_ScheduledOrder ==
    \A c \in Callers :
        disp[c].origin = "scheduled"
        => /\ Before(c, "gate", "notify_start")
           /\ Before(c, "notify_start", "job_running")
           /\ At(c, "notify_start") = {} => task[c] = IdleTask
           /\ At(c, "job_running") # {} => Cardinality(At(c, "notify_start")) = 1
           /\ Terminal(c) # {} /\ At(c, "notify_start") # {}
              => /\ Terminal(c) = {Len(disp[c].trace)}
                 /\ task[c].pc = "returned"
                 /\ At(c, "notify_success") # {} <=> task[c].result.status = "completed"
           /\ disp[c].pc = "done" /\ At(c, "notify_start") # {}
              => Cardinality(Terminal(c)) = 1

\* C15: a manual run and a webhook run notify like a scheduled dispatch:
\* "start" before the command is executed and exactly one "success" or
\* "failure" after the final attempt.
C15_DirectRunsNotify ==
    \A c \in Callers :
        disp[c].origin \in {"manual", "webhook"}
        => /\ At(c, "job_running") # {}
              => /\ Cardinality(At(c, "notify_start")) = 1
                 /\ Before(c, "notify_start", "job_running")
           /\ disp[c].pc = "done" /\ At(c, "exec_final") # {}
              => /\ Cardinality(Terminal(c)) = 1
                 /\ Before(c, "exec_final", "notify_success")
                 /\ Before(c, "exec_final", "notify_failure")

(***************************************************************************)
(* Properties of the scheduler.                                            *)
(***************************************************************************)
\* the threads in which the dispatch callback of id is in flight
InFlightCallbacks(id) ==
    {i \in DOMAIN sched.threads : sched.threads[i].id = id /\ sched.threads[i].busy}

\* the submissions of id that a thread handles or that wait in the queue
Submitted(sc, id) ==
    Cardinality({i \in DOMAIN sc.threads : sc.threads[i].id = id})
    + Cardinality({i \in DOMAIN sc.queue : sc.queue[i].id = id})

\* this step is a wakeup of the scheduler that processes the due Jobs
ProcessStep ==
    /\ sched.up
    /\ Due(sched) # {}
    /\ sched'.ops = sched.ops
    /\ sched'.store # sched.store

\* a Job that is due while an instance of its id has not ended is not
\* submitted: its run times are given up and its next run time lies ahead
SkipStep ==
    ProcessStep
    => \A i \in Due(sched) :
          LET job == sched.store[i] IN
          sched.instances[job.id] >= MaxInstances
          => /\ Submitted(sched', job.id) = Submitted(sched, job.id)
             /\ sched'.instances[job.id] = sched.instances[job.id]
             /\ \A k \in DOMAIN RunTimes(job, sched.now) :
                   <<job.id, RunTimes(job, sched.now)[k]>> \in sched'.skipped
             /\ sched'.store[i].next_run_time[1] > sched.now

\* C16: for every job id at most one dispatch callback of the scheduler is
\* in flight; a due time that comes while the callback of the id has not
\* returned is skipped and never run later, and callbacks of different ids
\* run at the same time.
C16_OneDispatchPerJob ==
    /\ [](\A id \in SchedIds :
             /\ Cardinality(InFlightCallbacks(id)) <= 1
             /\ Submitted(sched, id) = sched.instances[id]
             /\ sched.instances[id] <= MaxInstances
             /\ \A k \in DOMAIN sched.invoked[id] :
                   <<id, sched.invoked[id][k]>> \notin sched.skipped)
    /\ [][SkipStep]_vars

\* the callbacks of two ids are in flight at once, one of them for a run time
\* before a due time of its id that was skipped
C16_Witness ==
    \E i, k \in DOMAIN sched.threads :
        /\ sched.threads[i].id # sched.threads[k].id
        /\ sched.threads[i].busy
        /\ sched.threads[k].busy
        /\ \E t \in 0..MaxNow : /\ <<sched.threads[i].id, t>> \in sched.skipped
                                /\ Head(sched.threads[i].times) < t

\* the Jobs of the store registered under id
Registrations(sc, id) == {i \in DOMAIN sc.store : sc.store[i].id = id}

\* the triggers add_task can make at the instant now
TriggersAt(now) ==
    {_create_trigger(s[1], s[2], s[3], now)[1] :
        s \in {x \in Schedules : _create_trigger(x[1], x[2], x[3], now) # <<>>}}

\* this step is a call of add_task that returned
AddReturned ==
    /\ sched'.ops = sched.ops + 1
    /\ sched'.last.op = "add"
    /\ ~sched'.last.raised

\* add_task(id, ...) that returns leaves one Job of the id, made at this
\* instant of the trigger that TaskScheduler.jobs holds for the id, and
\* leaves the Jobs of the other ids as they were
AddStep ==
    AddReturned
    => LET id == sched'.last.id IN
       /\ Cardinality(Registrations(sched', id)) = 1
       /\ id \in DOMAIN sched'.jobs
       /\ sched'.jobs[id] \in TriggersAt(sched.now)
       /\ \A i \in Registrations(sched', id) :
             sched'.store[i] = NewJob(id, sched'.jobs[id], sched.now)
       /\ \A other \in SchedIds \ {id} :
             Cardinality(Registrations(sched', other))
                 = Cardinality(Registrations(sched, other))

\* C17: after any calls of add_task, remove_task, pause_task and resume_task
\* the scheduler holds at most one Job per id; add_task on a registered id
\* leaves exactly one, with the new trigger; so no run time of a job has the
\* callback called twice.
C17_OneRegistration ==
    /\ [](\A id \in SchedIds :
             /\ Cardinality(Registrations(sched, id)) <= 1
             /\ id \in DOMAIN sched.jobs <=> Registrations(sched, id) # {}
             /\ \A i \in Registrations(sched, id) : sched.store[i].trigger = sched.jobs[id]
             /\ \A k, m \in DOMAIN sched.invoked[id] :
                   k < m => sched.invoked[id][k] < sched.invoked[id][m])
    /\ [][AddStep]_vars

\* j1, registered at startup with "1s", was added again with the crontab of
\* every second tick, and its callback has been called
C17_Witness ==
    /\ sched.ops = 1
    /\ sched.last.op = "add"
    /\ sched.last.id = "j1"
    /\ ~sched.last.raised
    /\ sched.jobs["j1"] = Trigger(2, 0, "UTC")
    /\ \E k \in DOMAIN sched.invoked["j1"] : sched.invoked["j1"][k] = 2
    /\ sched.now = 3

\* the Job of id is in the store without a next run time
IsPaused(sc, id) ==
    \E i \in Registrations(sc, id) : sc.store[i].next_run_time = <<>>

\* this step is a call of the operation op
OpCalled(op) == sched'.ops = sched.ops + 1 /\ sched'.last.op = op

\* the scheduler but for the record of the calls
Apart(sc) == [sc EXCEPT !.ops = 0, !.last = IdleSched.last]

\* pause_task and resume_task keep the Job of the id and its trigger, and
\* change nothing when the id is not registered; resume_task gives the Job
\* the first instant of its trigger after now as next run time
PauseResumeStep ==
    OpCalled("pause") \/ OpCalled("resume")
    => LET id == sched'.last.id IN
       /\ sched'.jobs = sched.jobs
       /\ Len(sched'.store) = Len(sched.store)
       /\ \A i \in DOMAIN sched.store :
             /\ sched'.store[i].id = sched.store[i].id
             /\ sched'.store[i].trigger = sched.store[i].trigger
             /\ sched.store[i].id # id => sched'.store[i] = sched.store[i]
             /\ sched.store[i].id = id /\ OpCalled("pause")
                => sched'.store[i].next_run_time = <<>>
             /\ sched.store[i].id = id /\ OpCalled("resume")
                => LET trig == sched.store[i].trigger
                       next == sched'.store[i].next_run_time
                   IN /\ next # <<>>
                      /\ next[1] > sched.now
                      /\ next[1] <= IF trig.start > sched.now THEN trig.start
                                    ELSE sched.now + trig.every
                      /\ next[1] >= trig.start
                      /\ (next[1] - trig.start) % trig.every = 0
       /\ id \notin DOMAIN sched.jobs => Apart(sched') = Apart(sched)

\* a paused Job stays paused until resume_task, add_task or remove_task is
\* called for its id, and a wakeup of the scheduler submits nothing for it
PausedStep ==
    \A id \in SchedIds :
        IsPaused(sched, id)
        => /\ ~IsPaused(sched', id)
              => /\ sched'.ops = sched.ops + 1
                 /\ sched'.last.id = id
                 /\ sched'.last.op \in {"resume", "add", "remove"}
           /\ sched'.ops = sched.ops
              => /\ Submitted(sched', id) <= Submitted(sched, id)
                 /\ sched'.instances[id] <= sched.instances[id]
                 /\ \A t \in 0..MaxNow : <<id, t>> \in sched'.skipped
                                            <=> <<id, t>> \in sched.skipped

\* C18: pause_task on a registered id stops its firings until resume_task;
\* neither discards the registration or changes the trigger; after
\* resume_task the job fires at the times of its trigger again; on an id
\* that is not registered both change nothing.
C18_PauseResume == [][PauseResumeStep /\ PausedStep]_vars

\* j1, which fires every tick, was paused after its firing at 1 and resumed
\* at 2: the callback was called for 1 and for 3, not for 2
C18_Witness ==
    /\ sched.ops = 2
    /\ sched.last.op = "resume"
    /\ sched.last.id = "j1"
    /\ sched.last.prev = <<"pause", "j1">>
    /\ sched.invoked["j1"] = <<1, 3>>
    /\ sched.skipped = {}
    /\ sched.dropped = {}

RunStep(i) ==
    /\ i \in DOMAIN sched.threads
    /\ ~sched.threads[i].busy
    /\ sched.threads[i].times # <<>>
    /\ sched'.instances = sched.instances
    /\ sched'.queue = sched.queue
    /\ Len(sched'.threads) = Len(sched.threads)
    /\ sched'.threads[i] # sched.threads[i]

C20_NeverWaitsForOthers == sched.queue = <<>>

\* the due Jobs a wakeup submits: those with no instance of their id running
Submittable(sc) == {i \in Due(sc) : sc.instances[sc.store[i].id] < MaxInstances}

\* a wakeup submits every due Job that has no instance running, two that are
\* due at the same instant as well; each gets a thread at once as long as
\* the pool has a free one
SubmitStep ==
    ProcessStep
    => /\ \A i \in Submittable(sched) :
             /\ Submitted(sched', sched.store[i].id) = 1
             /\ sched'.instances[sched.store[i].id] = 1
       /\ Len(sched'.threads) + Len(sched'.queue)
             = Len(sched.threads) + Len(sched.queue) + Cardinality(Submittable(sched))
       /\ Len(sched.threads) + Cardinality(Submittable(sched)) <= sched.max_workers
          => sched'.queue = sched.queue

\* C20: a job that is due is submitted whatever the other jobs do, and its
\* callback waits for nothing but a thread of the pool: a submission is in
\* the queue only while scheduler_max_workers dispatches are in progress.
C20_WaitsOnlyForFullPool ==
    /\ [](sched.queue # <<>> => Len(sched.threads) = sched.max_workers)
    /\ [](Len(sched.threads) <= sched.max_workers)
    /\ [][SubmitStep]_vars

\* the callbacks of two jobs that were due at the same instant are both in
\* flight
C20_Witness ==
    \E i, k \in DOMAIN sched.threads :
        /\ sched.threads[i].id # sched.threads[k].id
        /\ sched.threads[i].busy
        /\ sched.threads[k].busy
        /\ sched.threads[i].times = sched.threads[k].times
        /\ sched.threads[i].calls = 1
        /\ sched.threads[k].calls = 1
        /\ Len(sched.threads[i].times) = 1

(***************************************************************************)
(* Registration errors of the scheduler.                                   *)
(***************************************************************************)
\* this step is a call of add_task that raised
AddRaised ==
    /\ sched'.ops = sched.ops + 1
    /\ sched'.last.op = "add"
    /\ sched'.last.raised

\* C21: add_task with a malformed or unsupported schedule raises and leaves
\* the registrations of the scheduler as they were, an earlier registration
\* of the same id included.
C21_BadAddHasNoEffect ==
    [][AddRaised => /\ sched'.store = sched.store
                    /\ sched'.jobs = sched.jobs]_vars

(***************************************************************************)
(* Properties of the edit of a job's schedule.                             *)
(***************************************************************************)
\* the trigger is one add_task makes of the descriptor d at some instant
Derived(d, trigger) ==
    \E now \in 0..MaxNow :
        _create_trigger(d.schedule_type, d.schedule, d.timezone, now) = <<trigger>>

\* the request has returned the row, whose schedule columns it has changed
EditCompleted ==
    /\ edit.pc = "done"
    /\ edit.http = 200
    /\ edit.before # <<schedules[edit.id]>>

\* C22: when an edit that changed the schedule type, the expression or the
\* time zone of a job has returned, the scheduler holds for the job the
\* registration made of the descriptor that is now in the store.
C22_StoreMatchesScheduler ==
    EditCompleted
    => /\ edit.id \in DOMAIN sched.jobs
       /\ Derived(schedules[edit.id], sched.jobs[edit.id])
       /\ \E i \in Registrations(sched, edit.id) :
             sched.store[i].trigger = sched.jobs[edit.id]

(***************************************************************************)
(* Properties of the interval expressions.                                 *)
(***************************************************************************)
\* the seconds of the units
UnitSeconds == [s |-> 1, m |-> 60, h |-> 3600, d |-> 86400]

\* the text is a string of decimal digits
IsDigits(text) == text # <<>> /\ \A i \in 1..Len(text) : text[i] \in DOMAIN Digits

\* the number a string of decimal digits denotes
RECURSIVE Decimal(_)
Decimal(text) ==
    IF text = <<>> THEN 0
    ELSE 10 * Decimal(SubSeq(text, 1, Len(text) - 1)) + Digits[text[Len(text)]]

\* the seconds of "<digits><unit>", <<>> for any other text
IntervalSeconds(text) ==
    IF /\ Len(text) >= 2
       /\ text[Len(text)] \in DOMAIN UnitSeconds
       /\ IsDigits(SubSeq(text, 1, Len(text) - 1))
    THEN <<Decimal(SubSeq(text, 1, Len(text) - 1)) * UnitSeconds[text[Len(text)]]>>
    ELSE <<>>

\* the Job add_task("j1", ...) has registered, if any
Registered(id) == {sched.store[i] : i \in Registrations(sched, id)}

\* C23: an interval expression of digits n and a unit gives the interval of
\* n seconds (s), 60n (m), 3600n (h), 86400n (d); any other unit character
\* and any prefix that is not a string of digits makes add_task raise and
\* register nothing.
C23_IntervalGrammar ==
    call.schedule # <<>>
    => LET secs == IntervalSeconds(call.schedule[1]) IN
       IF secs # <<>>
       THEN /\ ~call.raised
            /\ \E job \in Registered(call.id) : job.trigger.every = secs[1]
       ELSE /\ call.raised
            /\ Registered(call.id) = {}

(***************************************************************************)
(* Properties of the notification service.                                 *)
(***************************************************************************)
\* the NotificationConfig row of the id
ConfigOf(id) == configs[CHOOSE i \in DOMAIN configs : configs[i].id = id]

\* C24: notify_task_event creates no log row for, and calls no provider on
\* behalf of, a NotificationConfig whose enabled flag is false.
C24_DisabledConfigsSilent ==
    \A k \in DOMAIN logs : ConfigOf(logs[k].config).enabled

\* the config is the user's, its flag for the event is set, and it is global
\* or of the job
Selected(c, user_id, event_type, task_id) ==
    /\ c.user_id = user_id
    /\ event_type \in DOMAIN event_trigger_map
    /\ c[event_trigger_map[event_type]]
    /\ c.task_id = None \/ c.task_id = task_id

\* the call has read the configs and chosen those it goes through
Chosen == notif.pc \in {"create", "send", "done"}

\* C25: notify_task_event(user, event, job) goes through exactly the user's
\* configs whose flag for the event is set and that are global or of the
\* job; configs of other users, of other jobs (also when no job is given)
\* and with the flag unset are left out.
C25_SelectsByFlagAndScope ==
    Chosen
    => /\ \A i \in DOMAIN notif.configs :
             Selected(notif.configs[i], notif.user_id, notif.event_type, notif.task_id)
       /\ \A i \in DOMAIN configs :
             Selected(configs[i], notif.user_id, notif.event_type, notif.task_id)
             => \E k \in DOMAIN notif.configs : notif.configs[k] = configs[i]


\* the config is the user's, its flag for the event is set, and when a job
\* is given it is global or of that job
SelectedByCode(c, user_id, event_type, task_id) ==
    /\ c.user_id = user_id
    /\ event_type \in DOMAIN event_trigger_map
    /\ c[event_trigger_map[event_type]]
    /\ task_id # None => c.task_id = None \/ c.task_id = task_id

\* C25, amended: notify_task_event(user, event, job) goes through exactly
\* the user's configs whose flag for the event is set and that are global or
\* of the job; when no job is given it goes through all the user's configs
\* whose flag is set, those of single jobs included.
C25_SelectsAllScopesWithoutJob ==
    Chosen
    => /\ \A i \in DOMAIN notif.configs :
             SelectedByCode(notif.configs[i], notif.user_id, notif.event_type,
                            notif.task_id)
       /\ \A i \in DOMAIN configs :
             SelectedByCode(configs[i], notif.user_id, notif.event_type, notif.task_id)
             => \E k \in DOMAIN notif.configs : notif.configs[k] = configs[i]

\* a call without job has chosen a config of job j1 and left out a config of
\* another user whose flag for the event is set
C25_Witness ==
    /\ Chosen
    /\ notif.task_id = None
    /\ notif.event_type = "success"
    /\ Len(notif.configs) = 1
    /\ notif.configs[1].task_id = "j1"
    /\ \E i \in DOMAIN configs : configs[i].user_id = "u2" /\ configs[i].on_success


\* the log rows created for the config of the id
LogsFor(id) == {k \in DOMAIN logs : logs[k].config = id}

\* the configs the call goes through that have a recipient
WithRecipient == {i \in DOMAIN notif.configs : notif.configs[i].recipient # <<>>}

\* the row follows what the provider reported
LogFollowsProvider(log) ==
    /\ log.provider = "success"
       => log.status = "sent" /\ log.sent_at /\ log.retry_count = 0
    /\ log.provider = "failure"
       => /\ log.status = "failed"
          /\ ~log.sent_at
          /\ log.error_message # None
          /\ log.retry_count = 1

\* C26: one call of notify_task_event creates exactly one NotificationLog
\* row for each config it goes through that has a recipient, whatever the
\* provider reports, and none for a config without recipient; with no
\* config to go through it returns no row and creates none.  When the call
\* has returned no row it created is pending: a row is sent, with its sent
\* time, where the provider reported success, and failed, with an error
\* text and its retry count raised by one, where it reported failure.
C26_OneLogPerConfig ==
    /\ \A i \in DOMAIN configs : Cardinality(LogsFor(configs[i].id)) <= 1
    /\ notif.pc = "done"
       => /\ Len(logs) = Cardinality(WithRecipient)
          /\ notif.logs = [k \in 1..Len(logs) |-> k]
          /\ \A i \in WithRecipient :
                Cardinality(LogsFor(notif.configs[i].id)) = 1
          /\ \A i \in DOMAIN notif.configs \ WithRecipient :
                LogsFor(notif.configs[i].id) = {}
          /\ \A k \in DOMAIN logs :
                /\ logs[k].status \in {"sent", "failed"}
                /\ logs[k].channel \in Providers <=> logs[k].provider # None
                /\ LogFollowsProvider(logs[k])

\* the call has returned two rows, one for a send that succeeded and one for
\* a send that failed
C26_Witness ==
    /\ notif.pc = "done"
    /\ Len(notif.logs) = 2
    /\ logs[1].provider = "success"
    /\ logs[2].provider = "failure"
    /\ logs[2].retry_count = 1


(***************************************************************************)
(* The dispatch and its notifications.                                     *)
(***************************************************************************)
\* the scheduled dispatch of caller c has passed the gate and has ended
ScheduledEnded(c) ==
    /\ disp[c].origin = "scheduled"
    /\ disp[c].pc = "done"
    /\ disp[c].gate.pc = "done"
    /\ disp[c].gate.ok

\* the job status update_task_status is called with for an execution status
FinalJobStatus(exec_status) == IF exec_status = "completed" THEN "completed" ELSE "failed"

\* the step that records the final status of the job of a scheduled
\* dispatch records the one that follows from the engine's result
JobStatusStep ==
    \A c \in Callers :
        /\ disp[c].origin = "scheduled"
        /\ disp[c].pc = "job_final"
        /\ disp'[c].pc # "job_final"
        => jobs'[disp[c].job].status = FinalJobStatus(ExecStatus(task[c].result))

\* C27: what a scheduled dispatch records does not depend on what the
\* providers report for its notifications: whatever the sends of the start
\* and of the final notification report, the engine is called for the
\* command, the execution row gets the status of the engine's result and
\* the job the status that follows from it (where execute_with_retry raises,
\* the row stays running).
C27_OutcomeIgnoresDelivery ==
    /\ [](\A c \in Callers :
             ScheduledEnded(c)
             => /\ task[c].pc \in {"returned", "raised"}
                /\ task[c].command = disp[c].row[1].command
                /\ disp[c].exec # <<>>
                /\ task[c].pc = "returned"
                   => /\ disp[c].exec[1].status = ExecStatus(task[c].result)
                      /\ At(c, "job_final") # {}
                /\ task[c].pc = "raised"
                   => disp[c].exec[1].status = "running" /\ At(c, "job_final") = {})
    /\ [][JobStatusStep]_vars

\* a scheduled dispatch of j1 has completed although the sends of its start
\* and of its success notification both failed
C27_Witness ==
    \E c \in Callers :
        /\ ScheduledEnded(c)
        /\ disp[c].job = "j1"
        /\ disp[c].exec[1].status = "completed"
        /\ Len(logs) = 2
        /\ logs[1].event_type = "start" /\ logs[1].provider = "failure"
        /\ logs[2].event_type = "success" /\ logs[2].provider = "failure"


(***************************************************************************)
(* Properties of the rows of the store.                                    *)
(***************************************************************************)
\* C28: a TaskExecution row has its end_time set if and only if its status
\* is one of completed, failed, timeout, cancelled, after any calls of
\* create_execution and update_execution.
C28_EndTimeIffTerminal ==
    \A id \in DOMAIN executions :
        executions[id].end_time
            <=> executions[id].status \in {"completed", "failed", "timeout", "cancelled"}


\* C29: every identity in every job's dependency list refers to a job that
\* exists, after any calls of create_task, update_task and delete_task.
C29_DependenciesExist ==
    \A j \in DOMAIN jobs :
        \A i \in DOMAIN jobs[j].dependencies :
            LET u == UUIDParse(jobs[j].dependencies[i]) IN
            u.ok /\ u.id \in DOMAIN jobs


(***************************************************************************)
(* Properties of the execution row of a dispatch.                          *)
(***************************************************************************)
\* caller c's dispatch created its execution row and has ended
DispatchEnded(c) ==
    /\ disp[c].pc = "done"
    /\ \E i \in DOMAIN disp[c].trace : disp[c].trace[i] = "exec_created"

\* the steps of an execution row: created pending, then running, then one
\* of completed, failed, timeout, and no step after that
ExecutionRowStep ==
    \A c \in Callers :
        disp'[c].exec # disp[c].exec =>
            \/ disp[c].exec = <<>> /\ disp'[c].exec[1].status = "pending"
            \/ /\ disp[c].exec # <<>> /\ disp'[c].exec # <<>>
               /\ \/ disp[c].exec[1].status = "pending" /\ disp'[c].exec[1].status = "running"
                  \/ /\ disp[c].exec[1].status = "running"
                     /\ disp'[c].exec[1].status \in {"completed", "failed", "timeout"}

\* C30: a dispatch creates one execution row however many attempts are
\* made; the row goes pending, running, one terminal status, and when the
\* dispatch has ended its attempt_number is the number of the attempt whose
\* result it stores.
C30_OneRowPerDispatch ==
    /\ [](\A c \in Callers :
            DispatchEnded(c) =>
                /\ Len(SelectSeq(disp[c].trace, LAMBDA e : e = "exec_created")) = 1
                /\ disp[c].exec[1].status \in {"completed", "failed", "timeout"}
                /\ task[c].calls > 0 => disp[c].exec[1].attempt_number = task[c].calls)
    /\ [][ExecutionRowStep]_vars


(***************************************************************************)
(* Properties of validate_command with an allowlist.                       *)
(***************************************************************************)
\* the call of caller c has returned and validate_command accepted its command
Accepted(c) ==
    /\ task[c].pc = "returned"
    /\ task[c].result.error.kind # "Command validation failed"

\* C31: with a non-empty allowlist validate_command accepts a command only
\* if shlex.split gives it a first word and that word is in the allowlist.
C31_AllowlistDecides ==
    \A c \in Callers :
        allowed_commands # {} /\ Accepted(c) =>
            LET sh == ShlexSplit(task[c].arg) IN
            ~sh.raised /\ sh.parts # <<>> /\ sh.parts[1] \in allowed_commands


(***************************************************************************)
(* Properties of the captured output.                                      *)
(***************************************************************************)
\* the bytes of the first k characters of a stream whose characters all
\* take the same number of bytes
PrefixBytes(stream, k) == k * (stream.bytes \div stream.chars)

\* text is what the claim says is returned for the stream: the whole of it
\* if it has at most 100 KiB, else its first 100 KiB and the marker
ReturnedAsClaimed(stream, text) ==
    IF stream.bytes = 0 THEN text = <<>>
    ELSE IF stream.bytes <= MaxLength
    THEN text = <<[chars |-> stream.chars, marker |-> FALSE]>>
    ELSE /\ text # <<>>
         /\ text[1].marker
         /\ PrefixBytes(stream, text[1].chars) = MaxLength

\* execute returns from communicate() to caller c in this step
Captured(c) ==
    /\ task[c].pc = "waiting"
    /\ task'[c].pc = "returned"
    /\ task'[c].result.return_code # <<>>

\* C32: stdout and stderr are each returned unchanged when they have at
\* most 100 KiB, and as their first 100 KiB followed by the marker when they
\* are longer, whatever the other stream holds.
C32_TruncatesAt100KiB ==
    [][\A c \in Callers :
          Captured(c) =>
              /\ ReturnedAsClaimed(proc[Pid(c)].out[1], task'[c].result.stdout)
              /\ ReturnedAsClaimed(proc[Pid(c)].out[2], task'[c].result.stderr)]_vars


(***************************************************************************)
(* Properties of a blocked scheduled dispatch.                             *)
(***************************************************************************)
\* the scheduled dispatch of caller c found the dependencies unsatisfied
\* and has ended
BlockedEnded(c) ==
    /\ disp[c].origin = "scheduled"
    /\ disp[c].pc = "done"
    /\ disp[c].gate.pc = "done"
    /\ ~disp[c].gate.ok

\* the log rows of the failure notification that carries the reason
BlockedLogs(c) ==
    {k \in DOMAIN logs :
        /\ logs[k].event_type = "failure"
        /\ logs[k].task_id = disp[c].job
        /\ logs[k].content = Content("Dependency not satisfied", disp[c].gate.reason)}

\* the step in which a blocked dispatch sets the job's status sets it to failed
BlockedStatusStep ==
    \A c \in Callers :
        disp[c].pc = "blocked_status" /\ disp'[c].pc # "blocked_status"
            => jobs'[disp[c].job].status = "failed"

\* C33: a scheduled dispatch that finds the dependencies unsatisfied sets
\* the job's status to failed, calls for one failure notification, whose
\* content carries the blocking reason, and ends; it sends no start
\* notification, creates no execution row and spawns no process.
C33_BlockedDispatch ==
    /\ [](\A c \in Callers :
            BlockedEnded(c) =>
                /\ disp[c].trace = <<"gate", "job_failed", "notify_failure">>
                /\ disp[c].gate.reason # <<>>
                /\ Cardinality(BlockedLogs(c))
                       = Len(SelectSeq(ConfigsFor(configs, Owner, "failure", disp[c].job),
                                       LAMBDA g : g.recipient # <<>>))
                /\ \A k \in DOMAIN logs :
                       logs[k].task_id = disp[c].job /\ logs[k].event_type = "failure"
                           => k \in BlockedLogs(c)
                /\ disp[c].exec = <<>>
                /\ task[c].pc = "idle"
                /\ task[c].spawned = 0)
    /\ [][BlockedStatusStep]_vars

\* a blocked dispatch has ended and its failure notification is in the log
C33_Witness ==
    \E c \in Callers : BlockedEnded(c) /\ BlockedLogs(c) # {}


(***************************************************************************)
(* Properties of cancel during execute_with_retry.                         *)
(***************************************************************************)
\* an attempt of caller c's execute_with_retry waits for a process that
\* cancel has killed, and communicate() returns in this step
KilledAttemptReturns(c) ==
    /\ task[c].kind = "retry"
    /\ task[c].pc = "waiting"
    /\ proc[Pid(c)].state = "killed"
    /\ ~proc[Pid(c)].timed_out
    /\ task'[c].pc \notin {"waiting", "killwait"}
    /\ task'[c].result.return_code # <<>>

\* the killed attempt returns failed with the code of the kill, and the loop
\* sleeps if attempts remain; the sleep is followed by the next attempt,
\* under the next sub-key
RetryGoesOn ==
    \A c \in Callers :
        /\ KilledAttemptReturns(c) =>
              /\ task'[c].result.status = "failed"
              /\ task'[c].result.return_code = <<SIGKILLCode>>
              /\ task'[c].result.error = Msg("Exit code", SIGKILLCode)
              /\ task'[c].result.attempt_number = task[c].attempt + 1
              /\ task'[c].pc = IF task[c].attempt < task[c].max_retries - 1
                               THEN "sleeping" ELSE "returned"
        /\ task[c].pc = "sleeping" /\ task'[c].pc # "sleeping" =>
              /\ task'[c].pc = "acquire"
              /\ task'[c].attempt = task[c].attempt + 1
              /\ task'[c].cur_id = AttemptKey(task[c].execution_id, task[c].attempt + 2)
              /\ task'[c].calls = task[c].calls + 1

\* C34: cancel of an attempt of execute_with_retry that is in flight does
\* not end the retry loop: the killed attempt returns on the normal path
\* with status failed and a nonzero exit code, no result has the status
\* cancelled, and if attempts remain the loop sleeps and goes on with the
\* next attempt.
C34_CancelKeepsRetrying ==
    /\ [](\A c \in Callers : task[c].result.status # "cancelled")
    /\ [][RetryGoesOn]_vars

\* the first attempt was killed by cancel and the second has spawned its
\* process
C34_Witness ==
    \E c \in Callers :
        /\ task[c].kind = "retry"
        /\ canc.ret = "True" /\ canc.pid = <<c, 1>> /\ ~canc.late
        /\ task[c].result.return_code = <<SIGKILLCode>>
        /\ task[c].attempt = 1
        /\ task[c].spawned = 2
        /\ task[c].pc = "waiting"


(***************************************************************************)
(* Properties of the keys of execute_with_retry's attempts.                *)
(***************************************************************************)
\* an attempt of caller c's execute_with_retry has spawned its process and
\* has not returned
AttemptInFlight(c) ==
    /\ task[c].kind = "retry"
    /\ task[c].pc \in {"waiting", "killwait"}

\* the key the caller of execute_with_retry passed
CallersKey(c) == AttemptKey(task[c].execution_id, 0)

\* the process of an attempt in flight is tracked under the sub-key of the
\* attempt and under no other key; if the caller's key is tracked, it is
\* for the process of a call of execute with that key
TrackedUnderSubKey ==
    \A c \in Callers :
        AttemptInFlight(c) =>
            /\ task[c].cur_id = AttemptKey(task[c].execution_id, task[c].attempt + 1)
            /\ task[c].cur_id # CallersKey(c)
            /\ \A k \in DOMAIN running_tasks :
                   running_tasks[k] = Pid(c) => k = task[c].cur_id
            /\ is_running(CallersKey(c)) =>
                   \E d \in Callers \ {c} :
                       task[d].kind = "run" /\ running_tasks[CallersKey(c)] = Pid(d)

\* cancel with the caller's key leaves the attempt's process alone and
\* returns False unless a call of execute runs under that key; cancel with
\* the sub-key under which the process is tracked kills it and waits for it
CancelByKeyStep ==
    \A c \in Callers :
        AttemptInFlight(c) /\ CancelCalled =>
            /\ canc'.key = CallersKey(c) =>
                  /\ proc'[Pid(c)] = proc[Pid(c)]
                  /\ ~is_running(CallersKey(c)) => canc'.ret = "False" /\ proc' = proc
            /\ canc'.key = task[c].cur_id /\ is_running(task[c].cur_id) =>
                  /\ running_tasks[task[c].cur_id] = Pid(c)
                  /\ canc'.pc = "wait"
                  /\ canc'.pid = Pid(c)
                  /\ proc[Pid(c)].state = "alive" => proc'[Pid(c)].state = "killing"

\* the cancel that waits for a process returns True
CancelTrueStep ==
    canc.pc = "wait" /\ canc'.pc = "idle" => canc'.ret = "True"

\* C35: while attempt N of execute_with_retry(key, ...) is in flight its
\* process is tracked under the sub-key of attempt N only: is_running(key)
\* is false and cancel(key) returns False and kills nothing, cancel with the
\* sub-key kills the process and returns True.
C35_TrackedUnderSubKey ==
    /\ []TrackedUnderSubKey
    /\ [][CancelByKeyStep]_vars
    /\ [][CancelTrueStep]_vars

\* cancel with the caller's key has returned False while the process of the
\* first attempt runs, tracked under the attempt's sub-key
C35_Witness ==
    \E c \in Callers :
        /\ AttemptInFlight(c)
        /\ proc[Pid(c)].state = "alive"
        /\ running_tasks[task[c].cur_id] = Pid(c)
        /\ canc.pc = "idle"
        /\ canc.key = CallersKey(c)
        /\ canc.ret = "False"


(***************************************************************************)
(* Properties of a job with max_retries = 0.                               *)
(***************************************************************************)
\* execute_with_retry of caller c is entered in this step with
\* max_retries = 0 and a command that validate_command accepts
EntersWithZeroRetries(c) ==
    /\ task[c].pc = "idle"
    /\ task'[c].pc # "idle"
    /\ task'[c].kind = "retry"
    /\ task'[c].max_retries = 0
    /\ validate_command(task'[c].arg, allowed_commands).ok

\* the call returns at once with the result of no attempt, with no slot
\* taken and no process spawned
ZeroRetriesStep ==
    \A c \in Callers :
        EntersWithZeroRetries(c) =>
            /\ task'[c].pc = "returned"
            /\ task'[c].result.status = "failed"
            /\ task'[c].result.error.kind = "No execution result available"
            /\ task'[c].result.attempt_number = 0
            /\ task'[c].spawned = 0
            /\ task'[c].calls = 0
            /\ semaphore' = semaphore
            /\ running_tasks' = running_tasks
            /\ proc' = proc

\* the dispatch of caller c stores its job's status in this step
StoresJobStatus(c) ==
    /\ disp[c].pc = "job_final"
    /\ disp'[c].pc # "job_final"

\* C36: execute_with_retry with max_retries = 0 and a valid command takes
\* no slot, spawns no process and returns status failed with the error
\* "No execution result available" and no attempt number; a dispatch of a
\* job stored with max_retries = 0 never runs the command and ends with the
\* execution row and the job failed.
C36_ZeroRetriesNeverRuns ==
    /\ [][ZeroRetriesStep]_vars
    /\ [](\A c \in Callers :
            disp[c].row # <<>> /\ disp[c].row[1].max_retries = 0 =>
                /\ task[c].spawned = 0
                /\ \A p \in DOMAIN proc : p[1] # c
                /\ DispatchEnded(c) => disp[c].exec[1].status = "failed")
    /\ [][\A c \in Callers :
            StoresJobStatus(c) /\ disp[c].row[1].max_retries = 0 =>
                jobs'[disp[c].job].status = "failed"]_vars

C36_Witness ==
    \E c \in Callers :
        /\ DispatchEnded(c)
        /\ disp[c].origin = "scheduled"
        /\ disp[c].row[1].max_retries = 0
        /\ disp[c].row[1].command = cmdOk
        /\ task[c].result = NoAttemptResult
        /\ disp[c].exec[1].status = "failed"
        /\ jobs[disp[c].job].status = "failed"


(***************************************************************************)
(* Properties of the pause and resume routes.                              *)
(***************************************************************************)
\* the routes an owner calls for a job of the store set its status,
\* whatever it was and whatever the dispatches are doing
PauseResumeOverwrite ==
    sched'.ops = sched.ops + 1 /\ sched'.last.id \in DOMAIN jobs =>
        /\ sched'.last.op = "pause" => jobs'[sched'.last.id].status = "pending"
        /\ sched'.last.op = "resume" => jobs'[sched'.last.id].status = "running"

\* check_dependencies of caller c reads the dependency at its position i in
\* this step
GateReads(c) ==
    /\ disp[c].pc = "gate"
    /\ disp'[c] # disp[c]

\* a dependency that the routes left pending or running fails the check
GateFailsOnOverwritten ==
    \A c \in Callers :
        GateReads(c) =>
            LET d == disp[c].gate.deps[disp[c].gate.i] IN
            d.id \in DOMAIN jobs /\ jobs[d.id].status \in {"pending", "running"} =>
                /\ disp'[c].gate.pc = "done"
                /\ ~disp'[c].gate.ok
                /\ disp'[c].pc \notin {"notify_start", "create_exec"}

\* the dispatch of caller c stores completed as the status of job j in this
\* step, at the end of a run whose result was completed
FinishesSuccessfulRun(c, j) ==
    /\ StoresJobStatus(c)
    /\ disp[c].job = j
    /\ disp[c].exec[1].status = "completed"
    /\ task[c].result.status = "completed"

\* a status that is not completed becomes completed through the end of a
\* successful run only
CompletedAgainStep ==
    \A j \in JobIds :
        jobs[j].status # "completed" /\ jobs'[j].status = "completed" =>
            \E c \in Callers : FinishesSuccessfulRun(c, j)

\* C37: pause sets the job's status to pending and resume sets it to
\* running, unconditionally; after either, check_dependencies fails for the
\* jobs that depend on the job until a successful run of it ends.
C37_PauseResumeOverwrite ==
    /\ [][PauseResumeOverwrite]_vars
    /\ [][GateFailsOnOverwritten]_vars
    /\ [][CompletedAgainStep]_vars

\* j2, whose status was completed, was paused while a process of a run of
\* it is alive, and a dispatch of j1 was blocked by its status
C37_Witness ==
    \E c, b \in Callers :
        /\ disp[c].job = "j2"
        /\ disp[c].pc = "executing"
        /\ \E p \in DOMAIN proc : p[1] = c /\ proc[p].state = "alive"
        /\ jobs["j2"].status = "pending"
        /\ disp[b].job = "j1"
        /\ disp[b].gate.pc = "done"
        /\ disp[b].gate.reason =
               <<[kind |-> "not completed", who |-> "n2", status |-> "pending"]>>


(***************************************************************************)
(* Properties of jobs on a dependency cycle.                               *)
(***************************************************************************)
\* the jobs that the dependency list of job j names
DependsOn(store, j) ==
    {UUIDParse(store[j].dependencies[i]).id : i \in DOMAIN store[j].dependencies}
        \cap DOMAIN store

\* the jobs reached from the set of jobs js along at most n dependencies
RECURSIVE ReachedFrom(_, _, _)
ReachedFrom(store, js, n) ==
    IF n = 0 THEN js
    ELSE ReachedFrom(store, js \cup UNION {DependsOn(store, j) : j \in js}, n - 1)

\* the jobs on a dependency cycle, a job that lists itself included
OnCycle(store) ==
    {j \in DOMAIN store :
        j \in ReachedFrom(store, DependsOn(store, j), Cardinality(DOMAIN store))}

\* a dispatch stores completed as its job's status exactly when the result
\* of its run is completed, and no other step makes a status completed
CompletedStep ==
    /\ \A c \in Callers :
          StoresJobStatus(c) =>
              (jobs'[disp[c].job].status = "completed"
                   <=> task[c].result.status = "completed")
    /\ \A j \in JobIds :
          jobs'[j].status = "completed" /\ jobs[j].status # "completed" =>
              \E c \in Callers : StoresJobStatus(c) /\ disp[c].job = j

\* C38: a job's status becomes completed only at the end of a dispatch whose
\* result is completed; without webhook runs and edits of dependency lists,
\* jobs on a dependency cycle none of which is completed stay not completed
\* and no scheduled or manual dispatch of one of them creates an execution
\* row, calls the engine or spawns a process.
C38_CycleNeverRuns ==
    /\ [][CompletedStep]_vars
    /\ [](\A j \in OnCycle(jobs) : jobs[j].status # "completed")
    /\ [](\A c \in Callers :
            disp[c].job \in OnCycle(jobs) =>
                /\ disp[c].origin \in {"scheduled", "manual"}
                /\ disp[c].exec = <<>>
                /\ task[c].pc = "idle"
                /\ task[c].spawned = 0
                /\ \A p \in DOMAIN proc : p[1] # c)

\* j1 and j2 list each other: a scheduled dispatch of j1 and a manual
\* dispatch of j2 were blocked
C38_Witness ==
    \E c, b \in Callers :
        /\ "j1" \in DependsOn(jobs, "j2") /\ "j2" \in DependsOn(jobs, "j1")
        /\ disp[c].origin = "scheduled"
        /\ disp[c].job = "j1"
        /\ disp[c].pc = "done"
        /\ disp[c].gate.reason # <<>>
        /\ disp[c].gate.reason[1].kind = "not completed"
        /\ disp[b].origin = "manual"
        /\ disp[b].job = "j2"
        /\ disp[b].pc = "done"
        /\ disp[b].http = 400


(***************************************************************************)
(* Properties of a firing for a job that is missing or not active.         *)
(***************************************************************************)
\* on_schedule_trigger is entered by caller c in this step
Fires(c) ==
    /\ disp[c].origin = None
    /\ disp'[c].origin = "scheduled"

\* the job the firing is for is not in the store or is not active
MissingOrInactive(store, j) == j \notin DOMAIN store \/ ~store[j].is_active

\* the firing returns at once: the dispatch is over with nothing checked,
\* created, stored, sent or spawned
FiresInVain ==
    \A c \in Callers :
        Fires(c) /\ MissingOrInactive(jobs, disp'[c].job) =>
            /\ disp'[c].pc = "done"
            /\ disp'[c].gate = IdleGate
            /\ disp'[c].exec = <<>>
            /\ disp'[c].trace = <<>>
            /\ UNCHANGED <<jobs, logs, notif, executions, task, proc, running_tasks,
                           semaphore, sched>>

\* after such a return the dispatch does nothing more
ReturnedInVain(c) ==
    /\ disp[c].origin = "scheduled"
    /\ disp[c].pc = "done"
    /\ disp[c].row = <<>>

\* an update that makes a job inactive leaves the scheduler as it is
DeactivateStep ==
    \A id \in DOMAIN jobs :
        jobs[id].is_active /\ ~jobs'[id].is_active => sched' = sched

\* C39: a firing of the scheduler for a job that is not in the store or is
\* not active returns with no dependency check, no notification, no
\* execution row, no change of a job's status and no process, also when the
\* job is still registered in the scheduler: making a job inactive does not
\* remove the registration.
C39_FiringInVain ==
    /\ [][FiresInVain]_vars
    /\ [](\A c \in Callers :
            ReturnedInVain(c) =>
                /\ disp[c].gate = IdleGate
                /\ disp[c].exec = <<>>
                /\ disp[c].trace = <<>>
                /\ task[c].pc = "idle"
                /\ task[c].spawned = 0)
    /\ [][DeactivateStep]_vars
    /\ []("j1" \in DOMAIN sched.jobs /\ \E i \in DOMAIN sched.store : sched.store[i].id = "j1")

\* j1 was made inactive, is still registered, and a firing for it returned
C39_Witness ==
    \E c \in Callers :
        /\ ReturnedInVain(c)
        /\ disp[c].job = "j1"
        /\ ~jobs["j1"].is_active
        /\ "j1" \in DOMAIN sched.jobs
        /\ sched.store[1].next_run_time # <<>>
        /\ logs = <<>>


(***************************************************************************)
(* Termination of the dispatches.                                          *)
(***************************************************************************)
\* the dispatch of caller c has moved its execution row to running
RowRunning(c) ==
    /\ disp[c].exec # <<>>
    /\ disp[c].exec[1].status = "running"

\* the dispatch of caller c has stored the end of its run: the row is in a
\* terminal status, the job completed or failed, and the engine has made
\* max_retries attempts at most
Terminated(c) ==
    /\ disp[c].pc \in {"notify_final", "done"}
    /\ disp[c].exec # <<>>
    /\ disp[c].exec[1].status \in {"completed", "failed", "timeout"}
    /\ disp[c].trace[Len(disp[c].trace)] = "job_final"
    /\ jobs[disp[c].job].status \in {"completed", "failed"}
    /\ task[c].calls <= disp[c].row[1].max_retries

\* C40: if the event loops and the processes go on, every dispatch that has
\* moved its execution row to running ends after at most max_retries
\* attempts with the row completed, failed or timeout and the job completed
\* or failed.
C40_DispatchTerminates ==
    \A c \in Callers : RowRunning(c) ~> Terminated(c)

====
